---- MODULE Spec2Model ----
(***************************************************************************)
(* Verification model of the trpx repository: the Terse codec              *)
(* (src/include/Terse.hpp), the bit-level access classes it is built on    *)
(* (src/include/Bit_pointer.hpp), highest_set_bit                          *)
(* (src/include/Operators.hpp) and the Grey_tif container                  *)
(* (src/include/Grey_tif.hpp).                                             *)
(*                                                                         *)
(* Machine integers are modelled as the set of the positions of their one  *)
(* bits (bit 0 is the least significant), so that 32- and 64-bit words     *)
(* keep their full width.  A signed value is its two's complement bit      *)
(* pattern.                                                                *)
(***************************************************************************)
EXTENDS Integers, Sequences, FiniteSets, TLC

\* ------------------------------------------------------------------ bounds
\* Longest input sequence that is compressed.
MaxLen == 3

\* --------------------------------------------------------------- constants
\* Terse<T = uint64_t>: the number of bits of one word of d_terse_data.
WordBits == 64

\* ------------------------------------------------- machine integer helpers
Max(S) == CHOOSE m \in S : \A n \in S : n <= m
Min(S) == CHOOSE m \in S : \A n \in S : m <= n
CeilDiv(a, b) == (a + b - 1) \div b

\* (1 << n) - 1 computed without overflow: the n low bits.
Ones(n) == 0 .. (n - 1)
\* x << k on an unbounded integer.
Shl(x, k) == {i + k : i \in x}
\* x >> k on an unsigned integer.
Shr(x, k) == {i - k : i \in {j \in x : j >= k}}
\* Conversion to an unsigned type of w bits.
Trunc(x, w) == {i \in x : i < w}
\* Conversion of a w-bit two's complement pattern to w2 >= w bits.
SExt(x, w, w2) == IF (w - 1) \in x THEN x \cup (w .. (w2 - 1)) ELSE x
\* -x in w-bit two's complement arithmetic (wraps for the minimum value).
Neg(x, w) ==
    IF x = {} THEN {}
    ELSE LET l == Min(x) IN {l} \cup {i \in (l + 1) .. (w - 1) : i \notin x}
\* The bit pattern of a small natural number.
Bits(n, w) == {i \in 0 .. (w - 1) : (n \div (2 ^ i)) % 2 = 1}
\* The natural number of a small bit pattern.
RECURSIVE ToNat(_)
ToNat(x) == IF x = {} THEN 0 ELSE 2 ^ Max(x) + ToNat(x \ {Max(x)})

\* ------------------------------------------------------------ word storage
\* A std::vector<T> is a function from 0 .. size-1 to words.  A read beyond
\* the end yields 0 and a write beyond the end is dropped; the action that
\* performs one records it in the variable oob.
Rd(mem, i) == IF i \in DOMAIN mem THEN mem[i] ELSE {}
Wr(mem, i, v) == IF i \in DOMAIN mem THEN [mem EXCEPT ![i] = v] ELSE mem
Zeros(n) == [i \in 0 .. (n - 1) |-> {}]
\* std::vector::resize: keeps the common prefix and zero-fills the rest.
Resize(mem, n) == [i \in 0 .. (n - 1) |-> Rd(mem, i)]
\* Bit p of the storage, counted from bit 0 of word 0.
MemBit(mem, p) == (p % WordBits) \in Rd(mem, p \div WordBits)
\* The n bits of the storage from bit p on, as an integer.
Field(mem, p, n) == {i \in 0 .. (n - 1) : MemBit(mem, p + i)}

\* ------------------------------------------------------------- Bit_pointer
\* A Bit_pointer is [off |-> index of the word, bit |-> bit in the word].
\* The constructor with the bit offset divided as it is, rounding to zero.
BitPointerTruncating(off, bit) ==
    LET d_bit == bit % WordBits
    IN  [off |-> off + (IF bit < 0 THEN -((-bit) \div WordBits)
                        ELSE bit \div WordBits),
         bit |-> d_bit]
BitPointer(off, bit) ==
    LET d_bit == bit % WordBits
    IN  [off |-> off + (bit - d_bit) \div WordBits, bit |-> d_bit]
\* operator++()
Inc(bp) ==
    IF bp.bit + 1 = WordBits THEN [off |-> bp.off + 1, bit |-> 0]
    ELSE [bp EXCEPT !.bit = bp.bit + 1]
\* The largest value of the int that d_bit is.
IntMax == 2147483647
\* operator--()
Decr(bp) ==
    IF bp.bit - 1 = -1 THEN [off |-> bp.off - 1, bit |-> WordBits - 1]
    ELSE [bp EXCEPT !.bit = bp.bit - 1]
\* operator+=(shift): d_bit += shift stores the sum in an int, which keeps
\* its low 32 bits.
AddAssign(bp, shift) ==
    LET b == IF shift > IntMax - bp.bit
             THEN (shift - IntMax - 1) + (bp.bit - IntMax - 1)
             ELSE bp.bit + shift
    IN  IF b >= WordBits \/ b < 0
        THEN LET tmp == b % WordBits
             IN  [off |-> bp.off + (b - tmp) \div WordBits, bit |-> tmp]
        ELSE [bp EXCEPT !.bit = b]
\* operator-(Bit_pointer): with the start of the storage as the other one.
Pos(bp) == bp.off * WordBits + bp.bit
\* operator-=(shift)
SubAssign(bp, shift) == AddAssign(bp, -shift)
\* operator+(shift)
Plus(bp, shift) == BitPointer(bp.off, bp.bit + shift)
\* operator-(Bit_pointer)
Diff(bp, other) == (bp.off - other.off) * WordBits + (bp.bit - other.bit)
\* operator<, operator<=, operator> and operator>= of bp with other.
Comparisons(bp, other) ==
    [lt |-> bp.off <= other.off /\ bp.bit < other.bit,
     le |-> bp.off <= other.off /\ bp.bit <= other.bit,
     gt |-> bp.off >= other.off /\ bp.bit > other.bit,
     ge |-> bp.off >= other.off /\ bp.bit >= other.bit]
\* Bit::set()
BitSet(mem, bp) == Wr(mem, bp.off, Rd(mem, bp.off) \cup {bp.bit})
\* Bit::operator bool()
BitGet(mem, bp) == bp.bit \in Rd(mem, bp.off)
\* The operations of a Bit on its word: set, reset, flip, operator=(bool),
\* operator^=, operator|= and operator&=. bword is Type(b) << d_bit and
\* notbword is Type(~b) << d_bit, where ~b is the int -1 or -2.
BitApply(mem, bp, op, b) ==
    LET w == Rd(mem, bp.off)
        xor(m) == (w \ m) \cup (m \ w)
        bword(c) == IF c THEN {bp.bit} ELSE {}
        notbword ==
            Trunc(Shl(IF b THEN Ones(WordBits) \ {0} ELSE Ones(WordBits),
                      bp.bit), WordBits)
    IN  Wr(mem, bp.off,
           CASE op = "set" -> w \cup {bp.bit}
             [] op = "reset" -> w \ {bp.bit}
             [] op = "flip" -> xor({bp.bit})
             [] op = "assign" -> xor(bword(b # BitGet(mem, bp)))
             [] op = "xor" -> xor(bword(b))
             [] op = "or" -> w \cup bword(b)
             [] op = "and" -> w \ notbword)

\* --------------------------------------------------------------- Bit_range
\* operator|=(T value) for an unsigned T no wider than a word.
OrAssign(mem, bp, size, value) ==
    LET m1 == Wr(mem, bp.off,
                 Rd(mem, bp.off) \cup Trunc(Shl(value, bp.bit), WordBits))
        shift_right == WordBits - bp.bit
    IN  IF shift_right < size
        THEN Wr(m1, bp.off + 1, Rd(m1, bp.off + 1) \cup Shr(value, shift_right))
        ELSE m1
\* operator T() for T = uint8_t.
CastU8(mem, bp, size) ==
    IF size = 0 THEN {}
    ELSE LET r0 == Trunc(Shr(Rd(mem, bp.off), bp.bit), 8)
             r1 == IF bp.bit + size > WordBits
                   THEN r0 \cup Trunc(Shl(Rd(mem, bp.off + 1),
                                          WordBits - bp.bit), 8)
                   ELSE r0
         IN  r1 \cap Ones(size)

\* -------------------------------------------------- the build's resolutions
\* The code executes operations whose behaviour the language leaves
\* undefined; what they do is fixed by the compiler and the processor:
\*   shl: T(1) << n with n the width of the promoted T, then - 1.  "mask":
\*        the processor uses n modulo the width, so 1 << 0, and the mask is
\*        0; "zero": the shift yields 0 and the mask is all ones.
\*   abs: abs of a value the compiler has proved non-negative from an
\*        earlier std::abs.  "wrap": computed; "nonneg": removed.
\*   sub: (int(1) << 31) - 1, a signed overflow.  "wrap": INT_MAX; "trap":
\*        the build traps signed overflow and the program is aborted.
Builds(e, sgn) ==
    [shl : IF e = 32 THEN {"mask", "zero"} ELSE {"mask"},
     abs : IF e = 32 /\ sgn THEN {"wrap", "nonneg"} ELSE {"wrap"},
     sub : IF e = 32 /\ sgn THEN {"wrap", "trap"} ELSE {"wrap"}]

\* Width of the type an operand of e bits is promoted to in arithmetic.
Promoted(e) == IF e < 32 THEN 32 ELSE e

\* (T(1) << d_size) - 1 for a T of e bits, in the promoted type.
Mask(size, e, b) ==
    IF size < Promoted(e) THEN Ones(size)
    ELSE IF b.shl = "mask" THEN Ones(size % Promoted(e))
    ELSE Ones(Promoted(e))
\* The subtraction of Mask overflows: signed T, 1 << (width - 1) is the
\* minimum value.
MaskOverflows(size, e, sgn) == sgn /\ size = Promoted(e) - 1

\* value >> k for a value converted to a 64-bit word: the sign is kept.
AShr(x, k) ==
    Shr(x, k) \cup (IF (WordBits - 1) \in x
                    THEN (WordBits - k) .. (WordBits - 1) ELSE {})
\* Bit_range(bp, size) = v, operator=(T), for a T of e bits no wider than a
\* word: the field is cleared and the masked value is ORed in, in the word
\* at bp and, if the field crosses its end, in the next word.
Assign(mem, bp, size, v, e, sgn, b) ==
    LET value == Trunc((IF sgn THEN SExt(v, e, Promoted(e)) ELSE v)
                           \cap Mask(size, e, b), e)
        wide == IF sgn THEN SExt(value, e, WordBits) ELSE value
        mask == Mask(size, WordBits, b)
        m1 == Wr(mem, bp.off,
                 (Rd(mem, bp.off) \ Trunc(Shl(mask, bp.bit), WordBits))
                     \cup Trunc(Shl(wide, bp.bit), WordBits))
        shift_right == WordBits - bp.bit
    IN  IF shift_right < size
        THEN Wr(m1, bp.off + 1,
                (Rd(m1, bp.off + 1) \ Shr(mask, shift_right))
                    \cup AShr(wide, shift_right))
        ELSE m1
\* operator|=(T value) for a signed T of e bits no wider than a word: the
\* value is masked in T, converted to a word with its sign and shifted.
OrAssignSigned(mem, bp, size, v, e, b) ==
    LET value == Trunc(SExt(v, e, Promoted(e)) \cap Mask(size, e, b), e)
        wide == SExt(value, e, WordBits)
        m1 == Wr(mem, bp.off,
                 Rd(mem, bp.off) \cup Trunc(Shl(wide, bp.bit), WordBits))
        shift_right == WordBits - bp.bit
    IN  IF shift_right < size
        THEN Wr(m1, bp.off + 1,
                Rd(m1, bp.off + 1) \cup AShr(wide, shift_right))
        ELSE m1
\* operator T() for a T of e bits no wider than a word.
Cast(mem, bp, size, e, sgn, b) ==
    IF size = 0 THEN {}
    ELSE LET r0 == Trunc(Shr(Rd(mem, bp.off), bp.bit), e)
             r1 == IF bp.bit + size > WordBits
                   THEN r0 \cup Trunc(Shl(Rd(mem, bp.off + 1),
                                          WordBits - bp.bit), e)
                   ELSE r0
             mask == Trunc(Mask(size, e, b), e)
             r2 == r1 \cap mask
         IN  IF sgn /\ (size - 1) \in r2 THEN r2 \cup (Ones(e) \ mask)
             ELSE r2

\* ----------------------------------------------------------- Operators.hpp
\* std::abs(int): INT_MIN wraps to itself.
StdAbs(x) == IF 31 \in x THEN Neg(x, 32) ELSE x
\* Number of bits of an unsigned value: the loop of highest_set_bit.
BitLen(x) == IF x = {} THEN 0 ELSE 1 + Max(x)
\* highest_set_bit(T val) for a T of e bits.
highest_set_bit(val, e, sgn, b) ==
    IF ~sgn THEN BitLen(val)
    ELSE IF val = {} THEN 0
    ELSE LET a == IF e = 32 /\ b.abs = "nonneg" THEN val
                  ELSE StdAbs(SExt(val, e, 32))
         IN  1 + BitLen(Trunc(a, e))

\* --------------------------------------------------------- Terse::_compress
\* setbits of one block: the OR of the values (unsigned) or of their
\* std::abs (signed), kept in a variable of the element type.
RECURSIVE SetBits(_, _, _)
SetBits(vals, e, sgn) ==
    IF vals = <<>> THEN {}
    ELSE LET n == Len(vals)
             acc == SetBits(SubSeq(vals, 1, n - 1), e, sgn)
         IN  IF sgn THEN Trunc(acc \cup StdAbs(SExt(vals[n], e, 32)), e)
             ELSE acc \cup vals[n]

\* EmitHeader without the branch that repeats the previous width.
EmitHeaderNoRepeat(mem, bp, prev, s) ==
    IF s < 7
    THEN [mem |-> OrAssign(mem, Inc(bp), 3, Bits(s, 16)),
          bitp |-> AddAssign(Inc(bp), 3)]
    ELSE IF s < 10
    THEN [mem |-> OrAssign(mem, Inc(bp), 5, Bits(7 + (s - 7) * 8, 16)),
          bitp |-> AddAssign(Inc(bp), 5)]
    ELSE [mem |-> OrAssign(mem, Inc(bp), 11, Bits(31 + (s - 10) * 32, 16)),
          bitp |-> AddAssign(Inc(bp), 11)]
\* EmitHeader with the extension fields shifted one bit too little.
EmitHeaderShifted(mem, bp, prev, s) ==
    IF prev = s
    THEN [mem |-> BitSet(mem, bp), bitp |-> Inc(bp)]
    ELSE IF s < 7
    THEN [mem |-> OrAssign(mem, Inc(bp), 3, Bits(s, 16)),
          bitp |-> AddAssign(Inc(bp), 3)]
    ELSE IF s < 10
    THEN [mem |-> OrAssign(mem, Inc(bp), 5, Bits(7 + (s - 7) * 4, 16)),
          bitp |-> AddAssign(Inc(bp), 5)]
    ELSE [mem |-> OrAssign(mem, Inc(bp), 11, Bits(31 + (s - 10) * 16, 16)),
          bitp |-> AddAssign(Inc(bp), 11)]
\* The header of one block, written at bitp into zero-initialised storage.
EmitHeader(mem, bp, prev, s) ==
    IF prev = s
    THEN [mem |-> BitSet(mem, bp), bitp |-> Inc(bp)]
    ELSE IF s < 7
    THEN [mem |-> OrAssign(mem, Inc(bp), 3, Bits(s, 16)),
          bitp |-> AddAssign(Inc(bp), 3)]
    ELSE IF s < 10
    THEN [mem |-> OrAssign(mem, Inc(bp), 5, Bits(7 + (s - 7) * 8, 16)),
          bitp |-> AddAssign(Inc(bp), 5)]
    ELSE [mem |-> OrAssign(mem, Inc(bp), 11, Bits(31 + (s - 10) * 32, 16)),
          bitp |-> AddAssign(Inc(bp), 11)]

\* append_range: the local variable value for one element *p.
AppendValue(v, size, e, sgn, b) ==
    IF sgn THEN SExt(SExt(v, e, Promoted(e)) \cap Mask(size, e, b),
                     Promoted(e), WordBits)
    ELSE v
\* append_range: one pass of the loop over [from, to).
AppendStep(st, value, size) ==
    LET buf == st.buffer \cup Trunc(Shl(value, st.bit), WordBits)
        bit == st.bit + size
    IN  IF bit >= WordBits
        THEN [mem |-> Wr(st.mem, st.off, buf), off |-> st.off + 1,
              bit |-> bit - WordBits,
              buffer |-> Shr(value, size - (bit - WordBits))]
        ELSE [st EXCEPT !.buffer = buf, !.bit = bit]
RECURSIVE AppendLoop(_, _, _)
AppendLoop(st, values, size) ==
    IF values = <<>> THEN st
    ELSE AppendLoop(AppendStep(st, Head(values), size), Tail(values), size)
\* Bit_range(bp, size).append_range(from, to), then begin().
append_range(mem, bp, size, values) ==
    IF size = 0 THEN [mem |-> mem, bitp |-> bp]
    ELSE LET st == AppendLoop([mem |-> mem, off |-> bp.off, bit |-> bp.bit,
                               buffer |-> Rd(mem, bp.off)], values, size)
         IN  [mem |-> Wr(st.mem, st.off, st.buffer),
              bitp |-> [off |-> st.off, bit |-> st.bit]]

\* prevbits starting at a value no block has.
InitialPrevbitsNone == 0 - 1
\* int prevbits = 0: the width _compress compares the first block with.
InitialPrevbits == 0
\* The words the emitted bits fill, rounded up.
UsedWordsCeil(bits) == CeilDiv(bits, WordBits)
\* Number of words _compress keeps: 1 + (bitp - data) / (sizeof(T) * 8).
UsedWords(bits) == 1 + bits \div WordBits
\* Number of words _compress allocates before it writes.
Capacity(n, e, block) == CeilDiv(n * (e * block + 12), block * WordBits)

\* ---------------------------------------------------------------- Grey_tif
\* d_tif is a sequence of bytes 0 .. 255; the byte at offset o is
\* d_tif[o + 1].  A host is "little" or "big": the order in which it stores
\* the bytes of an integer.  An access outside the vector is undefined
\* behaviour: the object is marked undefined and nothing is known of the
\* program from there on.
CharI == 73
CharM == 77
OtherOrder(h) == IF h = "little" THEN "big" ELSE "little"
\* Byte k of the integer x, byte 0 the least significant.
ByteOf(x, k) == ToNat(Trunc(Shr(x, 8 * k), 8))
IsSmall(x) == BitLen(x) <= 24
Within(buf, off, n) == off + n <= Len(buf)
\* reinterpret_cast<uintN_t&>(d_tif[off]) = x for N = 8 * n on host h.
Poke(buf, off, n, x, h) ==
    [i \in DOMAIN buf |->
        IF i - 1 \in off .. (off + n - 1)
        THEN ByteOf(x, IF h = "little" THEN i - 1 - off ELSE off + n - i)
        ELSE buf[i]]
\* The value of reinterpret_cast<uintN_t&>(d_tif[off]) on host h.
Peek(buf, off, n, h) ==
    UNION {Shl(Bits(buf[off + 1 + j], 8),
               8 * (IF h = "little" THEN j ELSE n - 1 - j)) : j \in 0 .. (n - 1)}
\* f_int16, f_int32, f_int64 <NATIVE> at offset c: the value returned and
\* the vector, in which the bytes are swapped in place if not NATIVE.
FInt(buf, c, n, native, h) ==
    LET r == Peek(buf, c, n, IF native THEN h ELSE OtherOrder(h))
    IN  [val |-> r, buf |-> IF native THEN buf ELSE Poke(buf, c, n, r, h)]
\* count elements of n bytes from offset off on, each swapped in place.
SwapElems(buf, off, count, n) ==
    [i \in DOMAIN buf |->
        IF i - 1 \in off .. (off + count * n - 1)
        THEN LET j == i - 1 - off
             IN  buf[off + (j \div n) * n + (n - 1 - (j % n)) + 1]
        ELSE buf[i]]

\* f_set_ifd(index, tag, type, val): one 12-byte entry with count 1.
f_set_ifd(buf, index, tag, type, val, h) ==
    LET b1 == Poke(buf, index, 2, Bits(tag, 16), h)
        b2 == Poke(b1, index + 2, 2, Bits(type, 16), h)
        b3 == Poke(b2, index + 4, 4, Bits(1, 8), h)
    IN  IF type = 1 THEN Poke(b3, index + 8, 1, Bits(val, 24), h)
        ELSE IF type = 3 THEN Poke(b3, index + 8, 2, Bits(val, 24), h)
        ELSE IF type = 4 THEN Poke(b3, index + 8, 4, Bits(val, 24), h)
        ELSE b3
RECURSIVE SetIfds(_, _, _, _)
SetIfds(buf, index, entries, h) ==
    IF entries = <<>> THEN buf
    ELSE SetIfds(f_set_ifd(buf, index, Head(entries)[1], Head(entries)[2],
                           Head(entries)[3], h),
                 index + 12, Tail(entries), h)

\* f_make_Image: the value of one entry, read at offset c after its tag,
\* type and count.
IfdValue(buf, c, type, native, h) ==
    IF type \in {1, 2, 6, 7}
    THEN IF ~Within(buf, c, 1)
         THEN [val |-> {}, buf |-> buf, cursor |-> c, undefined |-> TRUE]
         ELSE [val |-> Bits(buf[c + 1], 8), buf |-> buf, cursor |-> c + 4,
               undefined |-> FALSE]
    ELSE IF type \in {3, 8}
    THEN IF ~Within(buf, c, 2)
         THEN [val |-> {}, buf |-> buf, cursor |-> c, undefined |-> TRUE]
         ELSE LET r == FInt(buf, c, 2, native, h)
              IN  [val |-> r.val, buf |-> r.buf, cursor |-> c + 4,
                   undefined |-> FALSE]
    ELSE IF type \in {4, 9, 11}
    THEN IF ~Within(buf, c, 4)
         THEN [val |-> {}, buf |-> buf, cursor |-> c, undefined |-> TRUE]
         ELSE LET r == FInt(buf, c, 4, native, h)
              IN  [val |-> IF type = 11 THEN {} ELSE r.val, buf |-> r.buf,
                   cursor |-> c + 4, undefined |-> FALSE]
    ELSE IF type \in {5, 10, 12}
    THEN IF ~Within(buf, c, 4)
         THEN [val |-> {}, buf |-> buf, cursor |-> c, undefined |-> TRUE]
         ELSE LET r == FInt(buf, c, 4, native, h)
                  p == ToNat(r.val)
              IN  IF ~IsSmall(r.val) \/ ~Within(r.buf, p, 8)
                  THEN [val |-> {}, buf |-> r.buf, cursor |-> c + 4,
                        undefined |-> TRUE]
                  ELSE [val |-> {},
                        buf |-> IF native THEN r.buf
                                ELSE IF type = 12
                                THEN SwapElems(r.buf, p, 1, 8)
                                ELSE SwapElems(r.buf, p, 2, 4),
                        cursor |-> c + 4, undefined |-> FALSE]
    ELSE [val |-> {}, buf |-> buf, cursor |-> c, undefined |-> FALSE]

\* f_make_Image: a tag whose values lie elsewhere in the file
\* (count # 1): count 32-bit values at offset val are read, and swapped in
\* place if not NATIVE; first is the first of them.
IfdArray(buf, val, count, native, h) ==
    IF ~IsSmall(val) \/ ~IsSmall(count) \/ count = {}
    THEN [first |-> {}, buf |-> buf, undefined |-> TRUE]
    ELSE IF ~Within(buf, ToNat(val), 4 * ToNat(count))
    THEN [first |-> {}, buf |-> buf, undefined |-> TRUE]
    ELSE [first |-> FInt(buf, ToNat(val), 4, native, h).val,
          buf |-> IF native THEN buf
                  ELSE SwapElems(buf, ToNat(val), ToNat(count), 4),
          undefined |-> FALSE]
\* f_make_Image: what one entry does to the locals, by its tag.
IfdTag(st, tag, count, val, native, h) ==
    IF tag = 256 THEN [st EXCEPT !.dim[1] = val]
    ELSE IF tag = 257 THEN [st EXCEPT !.dim[2] = val]
    ELSE IF tag = 258
    THEN IF val \in {{3}, {4}, {5}, {6}}
         THEN [st EXCEPT !.bits_per_pixel = ToNat(val)] ELSE st
    ELSE IF tag = 273
    THEN IF count = {0} THEN [st EXCEPT !.strip_offsets = val]
         ELSE LET a == IfdArray(st.buf, val, count, native, h)
              IN  [st EXCEPT !.strip_offsets = a.first, !.buf = a.buf,
                             !.strips = count,
                             !.undefined = st.undefined \/ a.undefined]
    ELSE IF tag = 279
    THEN IF count = {0} THEN st
         ELSE LET a == IfdArray(st.buf, val, count, native, h)
              IN  [st EXCEPT !.buf = a.buf, !.byte_counts = count,
                             !.undefined = st.undefined \/ a.undefined]
    ELSE IF tag = 339
    THEN [st EXCEPT !.signed_pixels = st.signed_pixels \/ val # {0},
                    !.int_pixels = st.int_pixels /\ val # {0, 1}]
    ELSE st
\* f_make_Image: one pass of the loop over the entries.
IfdEntry(st, native, h) ==
    IF st.undefined \/ ~Within(st.buf, st.cursor, 8)
    THEN [st EXCEPT !.undefined = TRUE]
    ELSE LET tag == FInt(st.buf, st.cursor, 2, native, h)
             type == FInt(tag.buf, st.cursor + 2, 2, native, h)
             count == FInt(type.buf, st.cursor + 4, 4, native, h)
             v == IfdValue(count.buf, st.cursor + 8, ToNat(type.val),
                           native, h)
         IN  IfdTag([st EXCEPT !.buf = v.buf, !.cursor = v.cursor,
                               !.undefined = v.undefined],
                    ToNat(tag.val), count.val, v.val, native, h)
RECURSIVE IfdEntries(_, _, _, _)
IfdEntries(st, n, native, h) ==
    IF n = 0 \/ st.undefined THEN st
    ELSE IfdEntries(IfdEntry(st, native, h), n - 1, native, h)

\* f_make_Image: the result when an access falls outside the vector.
MakeImageUndefined(o) == [obj |-> [o EXCEPT !.undefined = TRUE], index |-> {}]
\* f_make_Image, after the offset of the next directory is read: the
\* pixels are swapped in place if not NATIVE and wider than a byte, the
\* image is appended and d_last_ifd_offset is set.
MakeImageAppend(o, st, next, native) ==
    LET size == st.bits_per_pixel \div 8
        empty == st.dim[1] = {} \/ st.dim[2] = {} \/ size = 0
        fits == /\ IsSmall(st.dim[1]) /\ ToNat(st.dim[1]) <= Len(o.d_tif)
                /\ IsSmall(st.dim[2]) /\ ToNat(st.dim[2]) <= Len(o.d_tif)
                /\ IsSmall(st.strip_offsets)
                /\ Within(next.buf, ToNat(st.strip_offsets),
                          ToNat(st.dim[1]) * ToNat(st.dim[2]) * size)
    IN  IF ~empty /\ ~fits THEN MakeImageUndefined(o)
        ELSE [obj |-> [o EXCEPT
                  !.d_tif = IF native \/ size < 2 \/ empty THEN next.buf
                            ELSE SwapElems(next.buf, ToNat(st.strip_offsets),
                                           ToNat(st.dim[1]) * ToNat(st.dim[2]),
                                           size),
                  !.d_last_ifd_offset = st.cursor,
                  !.d_img = Append(o.d_img,
                                   [type |-> [size |-> size,
                                              is_signed |-> st.signed_pixels,
                                              is_integral |-> st.int_pixels],
                                    dim |-> st.dim,
                                    data |-> st.strip_offsets])],
              index |-> next.val]
\* f_make_Image, after the loop over the entries, which left the locals
\* st: the strips are compared and the offset of the next directory is
\* read.  The comparison may read beyond strip_byte_counts if that is the
\* shorter vector.
MakeImageNext(o, st, native) ==
    IF \/ st.undefined
       \/ ~Within(st.buf, st.cursor, 4)
       \/ (st.strips # {0} /\ ToNat(st.byte_counts) + 1 < ToNat(st.strips))
    THEN MakeImageUndefined(o)
    ELSE MakeImageAppend(o, st, FInt(st.buf, st.cursor, 4, native, o.host),
                         native)
\* f_make_Image, after the number of entries tag_count is read at index.
MakeImageEntries(o, index, tag_count, native) ==
    MakeImageNext(o,
        IfdEntries([buf |-> tag_count.buf, cursor |-> index + 2,
                    dim |-> <<{}, {}>>, bits_per_pixel |-> 0,
                    strip_offsets |-> {}, strips |-> {0},
                    byte_counts |-> {0}, signed_pixels |-> FALSE,
                    int_pixels |-> TRUE, undefined |-> FALSE],
                   ToNat(tag_count.val), native, o.host),
        native)
\* f_make_Image<NATIVE>(index) on the object o; index of the result is the
\* offset of the next directory.
f_make_Image(o, index, native) ==
    IF ~IsSmall(index) THEN MakeImageUndefined(o)
    ELSE IF ~Within(o.d_tif, ToNat(index), 2) THEN MakeImageUndefined(o)
    ELSE MakeImageEntries(o, ToNat(index),
                          FInt(o.d_tif, ToNat(index), 2, native, o.host),
                          native)

\* f_scan_images: the loop over the chain of directories; r is the object
\* after f_make_Image.
RECURSIVE ScanLoop(_, _, _)
ScanNext(r, native) ==
    ScanLoop(r, IF r.undefined THEN {}
                ELSE Peek(r.d_tif, r.d_last_ifd_offset, 4, r.host), native)
ScanLoop(o, index, native) ==
    IF index = {} \/ o.undefined THEN o
    ELSE ScanNext(f_make_Image(o, index, native).obj, native)
\* f_scan_images() on an object whose d_tif holds at least the 8-byte
\* header.
f_scan_images(o) ==
    LET h == o.host
        native == o.d_tif[1] = CharI /\ h = "little"
        flip == IF o.d_tif[1] = CharM THEN CharI ELSE CharM
        b1 == IF native THEN o.d_tif
              ELSE [o.d_tif EXCEPT ![1] = flip, ![2] = flip]
        b2 == Poke(b1, 2, 2, Bits(42, 8), h)
        index == Peek(b2, 4, 4, IF native THEN h ELSE OtherOrder(h))
        b3 == IF native THEN b2 ELSE Poke(b2, 4, 4, index, h)
    IN  ScanLoop([o EXCEPT !.d_tif = b3, !.d_img = <<>>], index, native)

\* Grey_tif(): the 8-byte header of an empty file in the order of host h.
DefaultTif(h) ==
    [host |-> h,
     d_tif |-> Poke(<<IF h = "little" THEN CharI ELSE CharM,
                      IF h = "little" THEN CharI ELSE CharM, 0, 0, 0, 0, 0, 0>>,
                    2, 2, Bits(42, 8), h),
     d_last_ifd_offset |-> 4, d_img |-> <<>>, fail |-> FALSE,
     undefined |-> FALSE]

\* SampleFormat written for a pixel type: 1 unsigned, 2 signed, 3 floating.
SampleFormat(type) ==
    IF ~type.is_integral THEN 3 ELSE IF type.is_signed THEN 2 ELSE 1
\* push_back(container, dim) on a Grey_tif<std::byte>: the pixels and a
\* directory of 7 entries are appended, the previous directory is linked to
\* it, and the images are scanned again.
push_back(o, frame) ==
    LET h == o.host
        size == frame.type.size
        bytes == frame.dim[1] * frame.dim[2] * size
        data_start == Len(o.d_tif)
        b0 == o.d_tif \o [i \in 1 .. (bytes + 7 * 12 + 6) |-> 0]
        b1 == [i \in DOMAIN b0 |->
                  IF i - 1 \in data_start .. (data_start + bytes - 1)
                  THEN LET j == i - 1 - data_start
                       IN  ByteOf(frame.pix[(j \div size) + 1],
                                  IF h = "little" THEN j % size
                                  ELSE size - 1 - (j % size))
                  ELSE b0[i]]
        odd == Len(b1) % 2 = 1
        b2 == IF odd THEN Append(b1, 0) ELSE b1
        index == data_start + bytes + (IF odd THEN 1 ELSE 0)
        b3 == Poke(b2, o.d_last_ifd_offset, 4, Bits(index, 24), h)
        b4 == Poke(b3, index, 2, Bits(7, 8), h)
        b5 == SetIfds(b4, index + 2,
                      <<<<256, 3, frame.dim[1]>>, <<257, 3, frame.dim[2]>>,
                        <<258, 3, 8 * size>>, <<259, 3, 1>>, <<262, 3, 1>>,
                        <<273, 4, data_start>>,
                        <<339, 3, SampleFormat(frame.type)>>>>, h)
        b6 == Poke(b5, index + 2 + 7 * 12, 4, {}, h)
    IN  f_scan_images([o EXCEPT !.d_tif = b6,
                                !.d_last_ifd_offset = index + 2 + 7 * 12])

\* Grey_tif(std::istream&) on host h: the file is read into d_tif, checked
\* and scanned.
GreyTifFromStream(bytes, h) ==
    LET o == [DefaultTif(h) EXCEPT !.d_tif = bytes]
    IN  IF Len(bytes) < 8 THEN [o EXCEPT !.undefined = TRUE]
        ELSE IF \/ bytes[1] \notin {CharI, CharM}
                \/ bytes[1] # bytes[2]
                \/ 42 # (IF bytes[1] = CharI THEN bytes[3] ELSE bytes[4])
        THEN [o EXCEPT !.fail = TRUE]
        ELSE f_scan_images(o)

\* image(i) of every image of the stack as the program on the object's
\* host sees it: type, dimensions and the pixels read from d_tif.
FramesOf(o) ==
    [i \in DOMAIN o.d_img |->
        LET img == o.d_img[i]
            n == ToNat(img.dim[1]) * ToNat(img.dim[2])
        IN  [type |-> img.type,
             dim |-> <<ToNat(img.dim[1]), ToNat(img.dim[2])>>,
             pix |-> [k \in 1 .. n |->
                         Peek(o.d_tif, ToNat(img.data) + (k - 1) * img.type.size,
                              img.type.size, o.host)]]]

\* ------------------------------------------------ Grey_tif<T>: f_regularize
\* static_cast<float>(x) of a 32-bit integer, signed or not: the bits of the
\* float nearest to it, ties to the even mantissa.
FloatOfInt(x, sgn) ==
    LET neg == sgn /\ 31 \in x
        mag == IF neg THEN Neg(x, 32) ELSE x
    IN  IF mag = {} THEN {}
        ELSE LET h == Max(mag)
                 frac == mag \ {h}
                 shift == h - 23
                 kept == IF shift > 0 THEN Shr(frac, shift)
                         ELSE Shl(frac, -shift)
                 rest == IF shift > 0 THEN Trunc(frac, shift) ELSE {}
                 up == /\ (shift - 1) \in rest
                       /\ rest # {shift - 1} \/ 0 \in kept
                 m == ToNat(kept) + (IF up THEN 1 ELSE 0)
                 carry == m = 2 ^ 23
             IN  (IF carry THEN {} ELSE Bits(m, 23))
                 \cup Shl(Bits(127 + h + (IF carry THEN 1 ELSE 0), 8), 23)
                 \cup (IF neg THEN {31} ELSE {})
\* static_cast<int>(f) of the float with bits f: the value rounded to zero;
\* undefined for a value outside the range of int.
IntOfFloat(f) ==
    LET e == ToNat(Trunc(Shr(f, 23), 8))
        h == e - 127
        m == Trunc(f, 23) \cup {23}
        mag == IF h >= 23 THEN Shl(m, h - 23) ELSE Shr(m, 23 - h)
    IN  IF e < 127 THEN [val |-> {}, undefined |-> FALSE]
        ELSE IF h >= 31
        THEN [val |-> {31}, undefined |-> f # {31} \cup Shl(Bits(158, 8), 23)]
        ELSE [val |-> IF 31 \in f THEN Neg(mag, 32) ELSE mag,
              undefined |-> FALSE]
\* The conversion of a pixel x of type old to the pixel type type, for types
\* of at most 4 bytes.
ConvertPixel(x, old, type) ==
    LET wide == IF old.is_integral /\ old.is_signed
                THEN SExt(x, 8 * old.size, 32) ELSE x
    IN  IF old.is_integral = type.is_integral
        THEN [val |-> Trunc(wide, 8 * type.size), undefined |-> FALSE]
        ELSE IF old.is_integral
        THEN [val |-> FloatOfInt(wide, old.is_signed), undefined |-> FALSE]
        ELSE LET i == IntOfFloat(x)
             IN  [val |-> Trunc(i.val, 8 * type.size),
                  undefined |-> i.undefined]
\* The pixels of image img of object o, read as the image's own type.
PixelsOf(o, img) ==
    [k \in 1 .. (ToNat(img.dim[1]) * ToNat(img.dim[2])) |->
        Peek(o.d_tif, ToNat(img.data) + (k - 1) * img.type.size,
             img.type.size, o.host)]
\* f_regularize, all images of the size of T: the pixels of an image are
\* converted in place if exactly one of the image's type and T is
\* floating point, and the image takes type T; the directory stays.
RegularizeInPlace(o, type) ==
    LET conv(img) == img.type.is_integral # type.is_integral
        at(j) == {i \in DOMAIN o.d_img :
                     /\ conv(o.d_img[i])
                     /\ j >= ToNat(o.d_img[i].data)
                     /\ j < ToNat(o.d_img[i].data) + 4 * Len(PixelsOf(o, o.d_img[i]))}
        byte(j, img) ==
            LET k == (j - ToNat(img.data)) \div 4
                v == ConvertPixel(PixelsOf(o, img)[k + 1], img.type, type).val
            IN  ByteOf(v, IF o.host = "little" THEN j % 4 ELSE 3 - (j % 4))
    IN  [o EXCEPT
           !.d_tif = [i \in DOMAIN o.d_tif |->
                         IF at(i - 1) = {} THEN o.d_tif[i]
                         ELSE byte(i - 1, o.d_img[CHOOSE n \in at(i - 1) : TRUE])],
           !.d_img = [i \in DOMAIN o.d_img |->
                         [o.d_img[i] EXCEPT !.type = type]],
           !.undefined =
               \E i \in DOMAIN o.d_img :
                   /\ conv(o.d_img[i])
                   /\ \E k \in DOMAIN PixelsOf(o, o.d_img[i]) :
                          ConvertPixel(PixelsOf(o, o.d_img[i])[k],
                                       o.d_img[i].type, type).undefined]
\* f_regularize, images of other sizes: a new stack of images of type T is
\* built, each pushed empty and then filled with the converted pixels of
\* the image it replaces, and is swapped in. Where the new stack has no
\* image i after the push, image(i) throws in this noexcept function and
\* the program ends: the object is marked like an undefined one.
RECURSIVE RegularizeCopy(_, _, _, _)
RegularizeCopy(o, type, new, i) ==
    IF i > Len(o.d_img) \/ new.undefined THEN new
    ELSE IF Len(push_back(new, [type |-> type,
                                dim |-> <<ToNat(o.d_img[i].dim[1]),
                                          ToNat(o.d_img[i].dim[2])>>,
                                pix |-> [k \in DOMAIN PixelsOf(o, o.d_img[i])
                                            |-> {}]]).d_img) < i
    THEN [new EXCEPT !.undefined = TRUE]
    ELSE LET img == o.d_img[i]
             old == PixelsOf(o, img)
             dim == <<ToNat(img.dim[1]), ToNat(img.dim[2])>>
             pushed_empty == push_back(new, [type |-> type, dim |-> dim,
                                             pix |-> [k \in DOMAIN old |-> {}]])
             data == ToNat(pushed_empty.d_img[i].data)
             byte(j) ==
                 LET k == (j - data) \div type.size
                     v == ConvertPixel(old[k + 1], img.type, type).val
                     b == (j - data) % type.size
                 IN  ByteOf(v, IF o.host = "little" THEN b
                               ELSE type.size - 1 - b)
         IN  RegularizeCopy(o, type,
                 [pushed_empty EXCEPT
                    !.d_tif = [n \in DOMAIN pushed_empty.d_tif |->
                                  IF /\ n - 1 >= data
                                     /\ n - 1 < data + type.size * Len(old)
                                  THEN byte(n - 1)
                                  ELSE pushed_empty.d_tif[n]],
                    !.undefined =
                        \E k \in DOMAIN old :
                            ConvertPixel(old[k], img.type, type).undefined],
                 i + 1)
\* f_regularize() of a Grey_tif<T>, T of pixel type type.
f_regularize(o, type) ==
    IF o.undefined \/ \A i \in DOMAIN o.d_img : o.d_img[i].type = type THEN o
    ELSE IF \A i \in DOMAIN o.d_img : o.d_img[i].type.size = type.size
    THEN RegularizeInPlace(o, type)
    ELSE RegularizeCopy(o, type, DefaultTif(o.host), 1)

\* ------------------------------------------------------------------- state
VARIABLES
    pc,            \* where the program is
    inp,           \* the sequence handed to the constructor, and its type
    build,         \* how this build resolves undefined behaviour
    terse_data,    \* _compress: the vector being filled
    bitp,          \* _compress and prolix: the local Bit_pointer
    prevbits,      \* _compress: width of the previous block
    from,          \* _compress and prolix: first index of the next block
    blocks,        \* history: where each block's header and payload went
    oob,           \* _compress touched a word beyond the allocation
    terse,         \* the Terse object the constructor made
    stream,        \* the file operator<< wrote
    loaded,        \* the Terse object read back from the file
    src,           \* which object prolix runs on: "mem" or "file"
    significant_bits,  \* prolix: width of the current block
    out,           \* prolix: the values written to the output iterator
    writer,        \* the Grey_tif object frames are pushed to
    pushed,        \* history: the frames handed to push_back
    file,          \* the bytes Grey_tif::write put into the file
    reader         \* the Grey_tif object constructed from the file

codecvars == <<inp, build, terse_data, bitp, prevbits, from, blocks, oob,
               terse, stream, loaded, src, significant_bits, out>>
tifvars == <<writer, pushed, file, reader>>
vars == <<pc, codecvars, tifvars>>

\* ------------------------------------------------------------------ inputs
\* Element types: width in bits and signedness.
ElemTypes == [e : {8, 16, 32}, sgn : BOOLEAN]
\* Block sizes: those the tests use, and 2 for several multi-value blocks.
BlockSizes == {1, 2, 8, 12, 64}
\* Element values.  Unsigned: 0, 3, the top bit, the maximum.  Signed: 0,
\* the minimum, -1, the maximum, and 2^(e-3).
ElemValues(e, sgn) ==
    IF sgn THEN {{}, {e - 1}, Ones(e), Ones(e - 1), {e - 3}}
    ELSE {{}, {0, 1}, {e - 1}, Ones(e)}
SeqsUpTo(S, n) == UNION {[1 .. k -> S] : k \in 0 .. n}
Inputs ==
    UNION {[e : {t.e}, sgn : {t.sgn}, block : BlockSizes,
            v : SeqsUpTo(ElemValues(t.e, t.sgn), MaxLen)] : t \in ElemTypes}

NoTerse == [prolix_bits |-> 0, signed |-> FALSE, block |-> 0, size |-> 0,
            data |-> Zeros(0)]
NoStream == [text |-> <<>>, bytes |-> <<>>]
\* No Grey_tif object has been constructed.
NoTif == [host |-> "none", d_tif |-> <<>>, d_last_ifd_offset |-> 0,
          d_img |-> <<>>, fail |-> FALSE, undefined |-> FALSE]

\* The constructor Terse(data, size, block) up to the first block of
\* _compress: the vector is allocated and zeroed, bitp is at its start.
Init ==
    /\ inp \in Inputs
    /\ build \in Builds(inp.e, inp.sgn)
    /\ pc = "compress"
    /\ terse_data = Zeros(Capacity(Len(inp.v), inp.e, inp.block))
    /\ bitp = [off |-> 0, bit |-> 0]
    /\ prevbits = InitialPrevbits
    /\ from = 0
    /\ blocks = <<>>
    /\ oob = FALSE
    /\ terse = NoTerse
    /\ stream = NoStream
    /\ loaded = NoTerse
    /\ src = "mem"
    /\ significant_bits = 0
    /\ out = <<>>
    /\ writer = NoTif
    /\ pushed = <<>>
    /\ file = <<>>
    /\ reader = NoTif

\* One pass of the loop of _compress: the block [from, to).
CompressBlock ==
    /\ pc = "compress"
    /\ from < Len(inp.v)
    /\ LET to == IF from + inp.block < Len(inp.v) THEN from + inp.block
                 ELSE Len(inp.v)
           vals == SubSeq(inp.v, from + 1, to)
           s == highest_set_bit(SetBits(vals, inp.e, inp.sgn),
                                inp.e, inp.sgn, build)
           h == EmitHeader(terse_data, bitp, prevbits, s)
           r == append_range(h.mem, h.bitp, s,
                    [i \in 1 .. Len(vals) |->
                        AppendValue(vals[i], s, inp.e, inp.sgn, build)])
           last == IF s = 0 THEN (Pos(h.bitp) - 1) \div WordBits
                   ELSE r.bitp.off
       IN  IF s # 0 /\ MaskOverflows(s, inp.e, inp.sgn) /\ build.sub = "trap"
           THEN /\ pc' = "aborted"
                /\ UNCHANGED <<terse_data, bitp, prevbits, from, blocks, oob>>
           ELSE /\ terse_data' = r.mem
                /\ bitp' = r.bitp
                /\ prevbits' = s
                /\ from' = from + inp.block
                /\ blocks' = Append(blocks,
                       [from |-> from, to |-> to, s |-> s, prev |-> prevbits,
                        hdr |-> Pos(bitp), pay |-> Pos(h.bitp),
                        end |-> Pos(r.bitp)])
                /\ oob' = (oob \/ last \notin DOMAIN terse_data)
                /\ pc' = pc
    /\ UNCHANGED <<inp, build, terse, stream, loaded, src, significant_bits,
                   out>>
    /\ UNCHANGED tifvars

\* The end of _compress and of the constructor: the vector is cut to the
\* words used and becomes d_terse_data.
CompressFinish ==
    /\ pc = "compress"
    /\ from >= Len(inp.v)
    /\ terse' = [prolix_bits |-> inp.e, signed |-> inp.sgn,
                 block |-> inp.block, size |-> Len(inp.v),
                 data |-> Resize(terse_data, UsedWords(Pos(bitp)))]
    /\ pc' = "encoded"
    /\ UNCHANGED <<inp, build, terse_data, bitp, prevbits, from, blocks, oob,
                   stream, loaded, src, significant_bits, out>>
    /\ UNCHANGED tifvars

\* ------------------------------------------------ the stream of operator<<
\* A file is the characters of the descriptor followed by the payload
\* bytes.  Text is a sequence of one-character strings, the payload a
\* sequence of numbers 0 .. 255.
Digits == <<"0", "1", "2", "3", "4", "5", "6", "7", "8", "9">>
\* ostream << n for an unsigned integer or a bool: decimal digits.
RECURSIVE Dec(_)
Dec(n) == IF n < 10 THEN <<Digits[n + 1]>>
          ELSE Dec(n \div 10) \o <<Digits[(n % 10) + 1]>>
IsDigit(c) == \E d \in 1 .. 10 : Digits[d] = c
DigitValue(c) == (CHOOSE d \in 1 .. 10 : Digits[d] = c) - 1
\* std::stoul, std::stoull and std::stold on a string of digits: the
\* number of the leading digits.
RECURSIVE StoulFrom(_, _)
StoulFrom(str, acc) ==
    IF str = <<>> \/ ~IsDigit(Head(str)) THEN acc
    ELSE StoulFrom(Tail(str), acc * 10 + DigitValue(Head(str)))
Stoul(str) == StoulFrom(str, 0)

TagOpen == <<"<", "T", "e", "r", "s", "e", " ">>
TagClose == <<"/", ">">>
Quote == <<"\"">>
NameProlixBits == <<"p", "r", "o", "l", "i", "x", "_", "b", "i", "t", "s">>
NameSigned == <<"s", "i", "g", "n", "e", "d">>
NameBlock == <<"b", "l", "o", "c", "k">>
NameMemorySize == <<"m", "e", "m", "o", "r", "y", "_", "s", "i", "z", "e">>
NameNumberOfValues == <<"n", "u", "m", "b", "e", "r", "_", "o", "f", "_", "v", "a", "l", "u", "e", "s">>
Attr(name, n, sep) == name \o <<"=">> \o Quote \o Dec(n) \o Quote \o sep

\* The bytes of one word, least significant first: uint8_t(val), val >>= 8.
WordBytes(w) == [i \in 1 .. (WordBits \div 8) |->
                    ToNat(Trunc(Shr(w, 8 * (i - 1)), 8))]
RECURSIVE DataBytes(_, _)
DataBytes(data, i) ==
    IF i \notin DOMAIN data THEN <<>>
    ELSE WordBytes(data[i]) \o DataBytes(data, i + 1)
\* operator<<(ostream, Terse)
StreamOf(t) ==
    [text |-> TagOpen
              \o Attr(NameProlixBits, t.prolix_bits, <<" ">>)
              \o Attr(NameSigned, IF t.signed THEN 1 ELSE 0, <<" ">>)
              \o Attr(NameBlock, t.block, <<" ">>)
              \o Attr(NameMemorySize,
                      Cardinality(DOMAIN t.data) * (WordBits \div 8), <<" ">>)
              \o Attr(NameNumberOfValues, t.size, TagClose),
     bytes |-> DataBytes(t.data, 0)]

\* ------------------------------------------------------------- XML_element
\* Character i of a std::string, counted from 0; the terminator at size().
At(str, i) == IF i + 1 \in DOMAIN str THEN str[i + 1] ELSE ""
SubStr(str, i, n) == [k \in 1 .. n |-> At(str, i + k - 1)]
\* for (char q = a[i]; a[++i] != q;): the index of the closing quote, or
\* size() when the string ends before it.
RECURSIVE SkipQuoted(_, _, _)
SkipQuoted(a, i, q) ==
    IF At(a, i + 1) = q \/ i + 1 >= Len(a) THEN i + 1
    ELSE SkipQuoted(a, i + 1, q)
\* The loop for (char q = a[i]; a[++i] != q;) leaves the string: the
\* quote is at or beyond the terminator, or no character after it equals
\* it, and a[++i] is read beyond a[size()].
QuoteRunsOff(a, i) == i >= Len(a) \/ At(a, SkipQuoted(a, i, At(a, i))) # At(a, i)
\* XML_element::attribute(name), the loop from index i on.  The bound
\* d_attributes.size() - name.size() - 3 is unsigned: with fewer than
\* name.size() + 3 characters it wraps and never stops the loop, which
\* then reads d_attributes beyond its terminator.  undefined is true when
\* the call does so.
RECURSIVE AttributeFrom(_, _, _)
AttributeFrom(a, name, i) ==
    IF Len(a) >= Len(name) + 3 /\ i > Len(a) - Len(name) - 3
    THEN [undefined |-> FALSE, value |-> <<>>]
    ELSE IF i + Len(name) > Len(a)
    THEN [undefined |-> TRUE, value |-> <<>>]
    ELSE IF At(a, i + Len(name)) = "=" /\ SubStr(a, i, Len(name)) = name
    THEN LET q == i + Len(name) + 1
             e == SkipQuoted(a, q, At(a, q))
         IN  IF QuoteRunsOff(a, q) THEN [undefined |-> TRUE, value |-> <<>>]
             ELSE [undefined |-> FALSE, value |-> SubStr(a, q + 1, e - (q + 1))]
    ELSE IF At(a, i) = "="
    THEN IF QuoteRunsOff(a, i + 1) THEN [undefined |-> TRUE, value |-> <<>>]
         ELSE AttributeFrom(a, name,
                            SkipQuoted(a, i + 1, At(a, i + 1)) + 1)
    ELSE AttributeFrom(a, name, i + 1)
attribute(a, name) == AttributeFrom(a, name, 0).value
\* f_get_attributes for the tag Terse: the text between the tag and its
\* closing characters.
f_get_attributes(text) ==
    IF SubStr(text, 0, 6) # SubSeq(TagOpen, 1, 6) THEN <<>>
    ELSE LET r == SubSeq(text, 8, Len(text) - 1)
         IN  IF Len(r) > 1 /\ r[Len(r)] = "/" THEN SubSeq(r, 1, Len(r) - 1)
             ELSE r

\* ------------------------------------------------ Terse(istream, XML_element)
\* val |= T(buffer[j++]) << 8*i over the bytes of one word.
WordOfBytes(buffer, j) ==
    UNION {Shl(Bits(IF j + i \in DOMAIN buffer THEN buffer[j + i] ELSE 0, 8),
               8 * (i - 1)) : i \in 1 .. (WordBits \div 8)}
TerseOf(st) ==
    LET xmle == f_get_attributes(st.text)
        memory_size == Stoul(attribute(xmle, NameMemorySize))
        buffer == [j \in 1 .. memory_size |->
                      IF j \in DOMAIN st.bytes THEN st.bytes[j] ELSE 0]
    IN  [prolix_bits |-> Stoul(attribute(xmle, NameProlixBits)),
         signed |-> Stoul(attribute(xmle, NameSigned)) # 0,
         block |-> Stoul(attribute(xmle, NameBlock)),
         size |-> Stoul(attribute(xmle, NameNumberOfValues)),
         data |-> [w \in 0 .. (CeilDiv(memory_size, WordBits \div 8) - 1) |->
                      WordOfBytes(buffer, w * (WordBits \div 8))]]

\* ostream << terse
Write ==
    /\ pc = "encoded"
    /\ stream' = StreamOf(terse)
    /\ pc' = "written"
    /\ UNCHANGED <<inp, build, terse_data, bitp, prevbits, from, blocks, oob,
                   terse, loaded, src, significant_bits, out>>
    /\ UNCHANGED tifvars

\* Terse(istream) on the file just written
Read ==
    /\ pc = "written"
    /\ loaded' = TerseOf(stream)
    /\ src' = "file"
    /\ pc' = "loaded"
    /\ UNCHANGED <<inp, build, terse_data, bitp, prevbits, from, blocks, oob,
                   terse, stream, significant_bits, out>>
    /\ UNCHANGED tifvars

\* ---------------------------------------------------------- Terse::prolix
\* get_range: the value stored through *p for one extracted result.
Extracted(result, size, e, sgn, b) ==
    LET mask == Trunc(Mask(size, e, b), e)
    IN  IF sgn /\ (size - 1) \in result
        THEN (result \cap mask) \cup (Ones(e) \ mask)
        ELSE result \cap mask
\* get_range: one pass of the loop over [from, to) for a target type of e
\* bits no wider than a word.
GetStep(mem, st, size, e, sgn, b) ==
    LET result == Trunc(st.buffer, e)
        bit == st.bit + size
    IN  IF bit >= WordBits
        THEN LET next == Rd(mem, st.off + 1)
                 d_bit == bit - WordBits
                 res == Trunc(result \cup Shl(next, size - d_bit), e)
             IN  [off |-> st.off + 1, bit |-> d_bit,
                  buffer |-> Shr(next, d_bit),
                  vals |-> Append(st.vals, Extracted(res, size, e, sgn, b))]
        ELSE [off |-> st.off, bit |-> bit, buffer |-> Shr(st.buffer, size),
              vals |-> Append(st.vals, Extracted(result, size, e, sgn, b))]
RECURSIVE GetLoop(_, _, _, _, _, _, _)
GetLoop(mem, st, n, size, e, sgn, b) ==
    IF n = 0 THEN st
    ELSE GetLoop(mem, GetStep(mem, st, size, e, sgn, b), n - 1, size, e, sgn, b)
\* std::clamp(arr[i], lower, upper) of an int64_t to a signed type of e
\* bits, or std::min(arr[i], upper) of a uint64_t to an unsigned one, then
\* static_cast<T>.
Clamp(x, e, sgn) ==
    IF sgn
    THEN IF 63 \in x
         THEN IF (e - 1) .. 63 \subseteq x THEN Trunc(x, e) ELSE {e - 1}
         ELSE IF x \cap ((e - 1) .. 63) = {} THEN x ELSE Ones(e - 1)
    ELSE IF x \cap (e .. 63) = {} THEN x ELSE Ones(e)
\* Bit_range(bp, size).get_range(from, from + n) into a type of e bits,
\* then begin().
get_range(mem, bp, size, n, e, sgn, b) ==
    LET st0 == [off |-> bp.off, bit |-> bp.bit,
                buffer |-> Shr(Rd(mem, bp.off), bp.bit), vals |-> <<>>]
    IN  IF size = 0
        THEN [vals |-> [i \in 1 .. n |-> {}], bitp |-> bp]
        ELSE IF e < size
        THEN LET st == GetLoop(mem, st0, n, size, 64, sgn, b)
             IN  [vals |-> [i \in 1 .. n |-> Clamp(st.vals[i], e, sgn)],
                  bitp |-> [off |-> st.off, bit |-> st.bit]]
        ELSE LET st == GetLoop(mem, st0, n, size, e, sgn, b)
             IN  [vals |-> st.vals, bitp |-> [off |-> st.off, bit |-> st.bit]]

\* prolix: the header of one block, read after its first bit was 0.
ReadHeader(mem, bp) ==
    LET s3 == ToNat(CastU8(mem, bp, 3))
        p3 == AddAssign(bp, 3)
        s5 == s3 + ToNat(CastU8(mem, p3, 2))
        p5 == AddAssign(p3, 2)
        s11 == s5 + ToNat(CastU8(mem, p5, 6))
        p11 == AddAssign(p5, 6)
    IN  IF s3 # 7 THEN [s |-> s3, bitp |-> p3]
        ELSE IF s5 # 10 THEN [s |-> s5, bitp |-> p5]
        ELSE [s |-> s11, bitp |-> p11]

\* prolix: the first bit of a block and, if it is 0, the header after it;
\* sb is significant_bits as the previous block left it.
ProlixHeader(mem, bp, sb) ==
    IF ~BitGet(mem, bp) THEN ReadHeader(mem, Inc(bp))
    ELSE [s |-> sb, bitp |-> Inc(bp)]

\* The object prolix is called on.
Object == IF src = "file" THEN loaded ELSE terse

\* prolix: the two assertions on the iterator's value type, of e bits and
\* signed or not (a floating type is signed).
ProlixAcceptsUnchecked(prolix_bits, signed, e, sgn) == TRUE
ProlixAccepts(prolix_bits, signed, e, sgn) ==
    prolix_bits <= e /\ signed = sgn
\* prolix(begin) with an iterator of the element type that was compressed:
\* both assertions hold, the locals are initialised.
ProlixBegin ==
    /\ pc \in {"encoded", "loaded"}
    /\ ProlixAccepts(Object.prolix_bits, Object.signed, inp.e, inp.sgn)
    /\ bitp' = [off |-> 0, bit |-> 0]
    /\ significant_bits' = 0
    /\ from' = 0
    /\ out' = <<>>
    /\ pc' = "prolix"
    /\ UNCHANGED <<inp, build, terse_data, prevbits, blocks, oob, terse,
                   stream, loaded, src>>
    /\ UNCHANGED tifvars

\* prolix: to = std::min(size(), from + d_block).
ProlixTo(first, block, size) ==
    IF first + block < size THEN first + block ELSE size
\* One pass of the loop of prolix: the block [from, to).
ProlixBlock ==
    /\ pc = "prolix"
    /\ from < Object.size
    /\ LET to == ProlixTo(from, Object.block, Object.size)
           h == ProlixHeader(Object.data, bitp, significant_bits)
           g == get_range(Object.data, h.bitp, h.s, to - from,
                          inp.e, inp.sgn, build)
       IN  IF h.s >= WordBits
           THEN \* get_range shifts a 64-bit word by 64 bits or more: from
                \* here on the behaviour of the program is undefined
                /\ pc' = "undefined"
                /\ UNCHANGED <<bitp, significant_bits, from, out>>
           ELSE IF h.s # 0 /\ h.s <= inp.e /\ MaskOverflows(h.s, inp.e, inp.sgn)
              /\ build.sub = "trap"
           THEN /\ pc' = "aborted"
                /\ UNCHANGED <<bitp, significant_bits, from, out>>
           ELSE /\ significant_bits' = h.s
                /\ out' = out \o g.vals
                /\ bitp' = g.bitp
                /\ from' = from + Object.block
                /\ pc' = pc
    /\ UNCHANGED <<inp, build, terse_data, prevbits, blocks, oob, terse,
                   stream, loaded, src>>
    /\ UNCHANGED tifvars

\* The end of prolix.
ProlixEnd ==
    /\ pc = "prolix"
    /\ from >= Object.size
    /\ pc' = "done"
    /\ UNCHANGED <<inp, build, terse_data, bitp, prevbits, from, blocks, oob,
                   terse, stream, loaded, src, significant_bits, out>>
    /\ UNCHANGED tifvars

Next == CompressBlock \/ CompressFinish \/ Write \/ Read
        \/ ProlixBegin \/ ProlixBlock \/ ProlixEnd

Spec == Init /\ [][Next]_vars

\* ------------------------------------------- prolix into another type
\* The value types of the iterator handed to prolix: the integral types of
\* 8, 16 and 32 bits, float and double.
Targets ==
    [e : {8, 16, 32}, sgn : BOOLEAN, integral : {TRUE}]
    \cup [e : {32, 64}, sgn : {TRUE}, integral : {FALSE}]

\* Terse(data, size, block) as in Init, with blocks of 2 and of 12 values.
TargetInit ==
    /\ \E t \in ElemTypes :
           inp \in [e : {t.e}, sgn : {t.sgn}, block : {2, 12},
                    v : SeqsUpTo(ElemValues(t.e, t.sgn), MaxLen),
                    integral : {TRUE}]
    /\ build \in Builds(inp.e, inp.sgn)
    /\ pc = "compress"
    /\ terse_data = Zeros(Capacity(Len(inp.v), inp.e, inp.block))
    /\ bitp = [off |-> 0, bit |-> 0]
    /\ prevbits = InitialPrevbits
    /\ from = 0
    /\ blocks = <<>>
    /\ oob = FALSE
    /\ terse = NoTerse
    /\ stream = NoStream
    /\ loaded = NoTerse
    /\ src = "mem"
    /\ significant_bits = 0
    /\ out = <<>>
    /\ writer = NoTif
    /\ pushed = <<>>
    /\ file = <<>>
    /\ reader = NoTif

\* prolix(begin) with an iterator of any value type; from here on inp holds
\* the type of the target.  A failed assertion aborts the program before
\* the loop.  A floating target is offered for unsigned data only.
ProlixInto ==
    /\ pc = "encoded"
    /\ \E t \in Targets :
           /\ t.integral \/ ~terse.signed
           /\ inp' = [inp EXCEPT !.e = t.e, !.sgn = t.sgn,
                                 !.integral = t.integral]
           /\ pc' = IF ProlixAccepts(terse.prolix_bits, terse.signed, t.e, t.sgn)
                    THEN "prolix" ELSE "aborted"
    /\ bitp' = [off |-> 0, bit |-> 0]
    /\ significant_bits' = 0
    /\ from' = 0
    /\ out' = <<>>
    /\ UNCHANGED <<build, terse_data, prevbits, blocks, oob, terse, stream,
                   loaded, src>>
    /\ UNCHANGED tifvars

TargetNext == CompressBlock \/ CompressFinish \/ ProlixInto \/ ProlixBlock
              \/ ProlixEnd

TargetSpec == TargetInit /\ [][TargetNext]_vars

\* ------------------------------------------- the block header on its own
\* The largest width a header can carry: 10 plus a 6-bit field.
MaxWidth == 73

\* _compress at the header of a block: any width, a previous width that is
\* equal or not, any bit of a zeroed word as the position.
HeaderInit ==
    /\ pc = "header"
    /\ significant_bits \in 0 .. MaxWidth
    /\ prevbits \in {0, significant_bits, MaxWidth}
    /\ bitp \in [off : {0}, bit : 0 .. (WordBits - 1)]
    /\ terse_data = Zeros(2)
    /\ inp = [e |-> 8, sgn |-> FALSE, block |-> 1, v |-> <<>>]
    /\ build \in Builds(8, FALSE)
    /\ from = 0
    /\ blocks = <<>>
    /\ oob = FALSE
    /\ terse = NoTerse
    /\ stream = NoStream
    /\ loaded = NoTerse
    /\ src = "mem"
    /\ out = <<>>
    /\ writer = NoTif
    /\ pushed = <<>>
    /\ file = <<>>
    /\ reader = NoTif

\* Lines 251-269 of _compress: the header is written.
HeaderEmit ==
    /\ pc = "header"
    /\ LET h == EmitHeader(terse_data, bitp, prevbits, significant_bits)
       IN  /\ terse_data' = h.mem
           /\ bitp' = h.bitp
           /\ blocks' = <<[from |-> 0, to |-> 0, s |-> significant_bits,
                           prev |-> prevbits, hdr |-> Pos(bitp),
                           pay |-> Pos(h.bitp), end |-> Pos(h.bitp)]>>
    /\ prevbits' = significant_bits
    /\ pc' = "emitted"
    /\ UNCHANGED <<inp, build, from, oob, terse, stream, loaded, src,
                   significant_bits, out>>
    /\ UNCHANGED tifvars

\* Lines 156-167 of prolix: the header is read back from where it was
\* written, significant_bits being the previous width.
HeaderParse ==
    /\ pc = "emitted"
    /\ LET h == ProlixHeader(terse_data,
                             BitPointer(0, blocks[1].hdr), blocks[1].prev)
       IN  /\ significant_bits' = h.s
           /\ bitp' = h.bitp
    /\ pc' = "parsed"
    /\ UNCHANGED <<inp, build, terse_data, prevbits, from, blocks, oob, terse,
                   stream, loaded, src, out>>
    /\ UNCHANGED tifvars

HeaderNext == HeaderEmit \/ HeaderParse

HeaderSpec == HeaderInit /\ [][HeaderNext]_vars

\* ------------------------------------------------ files that are corrupt
\* A Terse file that no operator<< wrote is loaded and decoded: its payload
\* is cut short, or its first header carries a width above 64.
\* Well-formed files of two values (one block of width 8 with the values
\* 1, 2, or one block of width 0) with only the first k payload bytes left.
TruncatedStreams ==
    UNION {LET st == StreamOf([prolix_bits |-> 8, signed |-> FALSE,
                               block |-> 2, size |-> 2, data |-> w])
           IN  {[text |-> st.text, bytes |-> SubSeq(st.bytes, 1, k)] :
                    k \in 0 .. Len(st.bytes)} :
           w \in {append_range(EmitHeader(Zeros(1), BitPointer(0, 0), 0, 8).mem,
                               BitPointer(0, 6), 8,
                               [i \in 1 .. n |-> Bits(i, 8)]).mem : n \in 1 .. 2}
                 \cup {EmitHeader(Zeros(1), BitPointer(0, 0), 0, 0).mem}}
\* Files of one value whose header carries a width s in 65 .. 73.
WideHeaderStreams ==
    {StreamOf([prolix_bits |-> 8, signed |-> FALSE, block |-> 1, size |-> 1,
               data |-> EmitHeader(Zeros(2), BitPointer(0, 0), 0, s).mem]) :
         s \in (WordBits + 1) .. MaxWidth}
\* The width the first header of the payload carries.
FirstWidth(st) ==
    ProlixHeader(TerseOf(st).data, BitPointer(0, 0), 0).s
\* The file is on disk; prolix will be called with a target of 8, 16 or 32
\* bits, unsigned as the descriptor says.
CorruptInit ==
    /\ pc = "written"
    /\ stream \in TruncatedStreams \cup WideHeaderStreams
    /\ inp \in [e : {8, 16, 32}, sgn : {FALSE}, block : {1}, v : {<<>>}]
    /\ build \in [shl : {"mask", "zero"}, abs : {"wrap"}, sub : {"wrap"}]
    /\ terse_data = Zeros(0)
    /\ bitp = [off |-> 0, bit |-> 0]
    /\ prevbits = 0
    /\ from = 0
    /\ blocks = <<>>
    /\ oob = FALSE
    /\ terse = NoTerse
    /\ loaded = NoTerse
    /\ src = "file"
    /\ significant_bits = 0
    /\ out = <<>>
    /\ writer = NoTif
    /\ pushed = <<>>
    /\ file = <<>>
    /\ reader = NoTif

CorruptNext == Read \/ ProlixBegin \/ ProlixBlock \/ ProlixEnd

CorruptSpec == CorruptInit /\ [][CorruptNext]_vars

\* ------------------------------------------------- Grey_tif: file exchange
\* Most frames pushed to one stack.
MaxFrames == 2
Hosts == {"little", "big"}
\* Pixel types of the frames: uint8_t, int16_t, float.
PixelTypes ==
    {[size |-> 1, is_signed |-> FALSE, is_integral |-> TRUE],
     [size |-> 2, is_signed |-> TRUE, is_integral |-> TRUE],
     [size |-> 4, is_signed |-> TRUE, is_integral |-> FALSE]}
\* Pixel values: 1, and a value whose bytes all differ from each other.
PixelValues(size) ==
    {{0}, UNION {Shl(Bits(k + 2, 8), 8 * k) : k \in 0 .. (size - 1)}}
FrameDims == {<<1, 1>>, <<2, 1>>}
TifFrames ==
    UNION {[type : {t}, dim : {d},
            pix : [1 .. (d[1] * d[2]) -> PixelValues(t.size)]] :
           t \in PixelTypes, d \in FrameDims}

\* A Grey_tif<std::byte> is default-constructed on a host of either order.
TifInit ==
    /\ pc = "tif"
    /\ writer \in {DefaultTif(h) : h \in Hosts}
    /\ pushed = <<>>
    /\ file = <<>>
    /\ reader = NoTif
    /\ inp = [e |-> 8, sgn |-> FALSE, block |-> 1, v |-> <<>>]
    /\ build \in Builds(8, FALSE)
    /\ terse_data = Zeros(0)
    /\ bitp = [off |-> 0, bit |-> 0]
    /\ prevbits = 0
    /\ from = 0
    /\ blocks = <<>>
    /\ oob = FALSE
    /\ terse = NoTerse
    /\ stream = NoStream
    /\ loaded = NoTerse
    /\ src = "mem"
    /\ significant_bits = 0
    /\ out = <<>>

\* writer.push_back(frame)
TifPushBack ==
    /\ pc = "tif"
    /\ ~writer.undefined
    /\ Len(pushed) < MaxFrames
    /\ \E frame \in TifFrames :
           /\ writer' = push_back(writer, frame)
           /\ pushed' = Append(pushed, frame)
    /\ UNCHANGED <<pc, file, reader>>
    /\ UNCHANGED codecvars

\* writer.write(os)
TifWrite ==
    /\ pc = "tif"
    /\ ~writer.undefined
    /\ file' = writer.d_tif
    /\ pc' = "tifwritten"
    /\ UNCHANGED <<writer, pushed, reader>>
    /\ UNCHANGED codecvars

\* Grey_tif<std::byte> reader(is) on a host of either order
TifLoad ==
    /\ pc = "tifwritten"
    /\ \E h \in Hosts : reader' = GreyTifFromStream(file, h)
    /\ pc' = "tifloaded"
    /\ UNCHANGED <<writer, pushed, file>>
    /\ UNCHANGED codecvars

TifNext == TifPushBack \/ TifWrite \/ TifLoad

TifSpec == TifInit /\ [][TifNext]_vars

\* ------------------------------------------------- Bit_range on its own
\* A Bit_range of inp.s bits at bit inp.start of a storage of four words is
\* assigned and read, or filled by append_range and read by get_range, with
\* values of a type of inp.e bits.
\* Widths up to the width of the type, and widths beyond it.
BitWidths(e) == {1, 2, e - 1, e} \cup {e + 1, 33, 63, 64}
\* What the storage holds before: zeros, ones, or every third bit.
BitStorages ==
    {[i \in 0 .. 3 |-> w] :
         w \in {{}, Ones(WordBits), {k \in Ones(WordBits) : k % 3 = 0}}}
\* The width is no more than that of the type.
Fits == inp.s <= inp.e
\* The subtraction in the mask overflows and this build traps it.
BitTrap ==
    /\ build.sub = "trap"
    /\ MaskOverflows(inp.s, IF Fits THEN inp.e ELSE WordBits, inp.sgn)

BitInit ==
    /\ pc = "bit"
    /\ \E t \in ElemTypes :
           inp \in [e : {t.e}, sgn : {t.sgn}, s : BitWidths(t.e),
                    start : {0, 5, 60},
                    v : SeqsUpTo(ElemValues(t.e, t.sgn), 2) \ {<<>>}]
    /\ build \in [shl : {"mask", "zero"}, abs : {"wrap"},
                 sub : {"wrap", "trap"}]
    /\ terse_data \in BitStorages
    /\ bitp = BitPointer(0, inp.start)
    /\ prevbits = 0
    /\ from = 0
    /\ blocks = <<>>
    /\ oob = FALSE
    /\ terse = NoTerse
    /\ stream = NoStream
    /\ loaded = NoTerse
    /\ src = "mem"
    /\ significant_bits = 0
    /\ out = <<>>
    /\ writer = NoTif
    /\ pushed = <<>>
    /\ file = <<>>
    /\ reader = NoTif

\* Bit_range(bitp, s) = v[0]
BitAssign ==
    /\ pc = "bit"
    /\ Fits
    /\ IF BitTrap
       THEN pc' = "aborted" /\ UNCHANGED terse_data
       ELSE /\ terse_data' = Assign(terse_data, bitp, inp.s, inp.v[1],
                                    inp.e, inp.sgn, build)
            /\ pc' = "assigned"
    /\ UNCHANGED <<inp, build, bitp, prevbits, from, blocks, oob, terse,
                   stream, loaded, src, significant_bits, out>>
    /\ UNCHANGED tifvars

\* T(Bit_range(bitp, s))
BitCast ==
    /\ pc = "assigned"
    /\ out' = <<Cast(terse_data, bitp, inp.s, inp.e, inp.sgn, build)>>
    /\ pc' = "read"
    /\ UNCHANGED <<inp, build, terse_data, bitp, prevbits, from, blocks, oob,
                   terse, stream, loaded, src, significant_bits>>
    /\ UNCHANGED tifvars

\* Bit_range(bitp, s).append_range(v.begin(), v.end()) into zeroed storage;
\* bitp becomes begin() of the range.
BitAppend ==
    /\ pc = "bit"
    /\ Fits
    /\ terse_data = Zeros(4)
    /\ IF BitTrap
       THEN pc' = "aborted" /\ UNCHANGED <<terse_data, bitp>>
       ELSE LET r == append_range(terse_data, bitp, inp.s,
                         [i \in 1 .. Len(inp.v) |->
                             AppendValue(inp.v[i], inp.s, inp.e, inp.sgn,
                                         build)])
            IN  /\ terse_data' = r.mem
                /\ bitp' = r.bitp
                /\ pc' = "appended"
    /\ UNCHANGED <<inp, build, prevbits, from, blocks, oob, terse, stream,
                   loaded, src, significant_bits, out>>
    /\ UNCHANGED tifvars

\* Bit_range(start, s).get_range(out.begin(), out.end()) with as many
\* elements as v has: on the values appended, or on storage as it is when
\* the width is beyond the type; bitp becomes begin() of the range.  A
\* width of a whole word makes get_range shift a word by its width.
BitGetRange ==
    /\ \/ pc = "appended"
       \/ pc = "bit" /\ ~Fits
    /\ IF inp.s >= WordBits
       THEN pc' = "undefined" /\ UNCHANGED <<bitp, out>>
       ELSE IF BitTrap
       THEN pc' = "aborted" /\ UNCHANGED <<bitp, out>>
       ELSE LET g == get_range(terse_data, BitPointer(0, inp.start), inp.s,
                               Len(inp.v), inp.e, inp.sgn, build)
            IN  /\ out' = g.vals
                /\ bitp' = g.bitp
                /\ pc' = IF Fits THEN "got" ELSE "clamped"
    /\ UNCHANGED <<inp, build, terse_data, prevbits, from, blocks, oob, terse,
                   stream, loaded, src, significant_bits>>
    /\ UNCHANGED tifvars

BitNext == BitAssign \/ BitCast \/ BitAppend \/ BitGetRange

BitSpec == BitInit /\ [][BitNext]_vars

\* Bit_range(bitp, s) |= v[0]
BitOrAssign ==
    /\ pc = "bit"
    /\ Fits
    /\ IF inp.sgn /\ BitTrap
       THEN pc' = "aborted" /\ UNCHANGED terse_data
       ELSE /\ terse_data' =
                  IF inp.sgn
                  THEN OrAssignSigned(terse_data, bitp, inp.s, inp.v[1],
                                      inp.e, build)
                  ELSE OrAssign(terse_data, bitp, inp.s, inp.v[1])
            /\ pc' = "ored"
    /\ UNCHANGED <<inp, build, bitp, prevbits, from, blocks, oob, terse,
                   stream, loaded, src, significant_bits, out>>
    /\ UNCHANGED tifvars

RangeNext == BitAssign \/ BitOrAssign

RangeSpec == BitInit /\ [][RangeNext]_vars

\* --------------------------------------- Bit_pointer and Bit on their own
\* The bit offsets a Bit_pointer is constructed from.
Starts == {-65, -64, -1, 0, 5, 63, 64, 130}
\* The shifts of operator+= and operator-=.
Shifts == {-65, 64, IntMax}
\* The shifts of operator+.
Offsets == {-(IntMax \div 4), -130, -64, -1, 0, 1, 63, 200, IntMax \div 4}
\* The operations of a Bit.
BitOps == {"set", "reset", "flip", "assign", "xor", "or", "and"}

\* Bit_pointer p(data, start), with data the start of four words.
PointerInit ==
    /\ pc = "ptr"
    /\ inp \in [start : Starts]
    /\ build \in [shl : {"mask"}, abs : {"wrap"}, sub : {"wrap"}]
    /\ terse_data \in BitStorages
    /\ bitp = BitPointer(0, inp.start)
    /\ prevbits = 0
    /\ from = 0
    /\ blocks = <<>>
    /\ oob = FALSE
    /\ terse = NoTerse
    /\ stream = NoStream
    /\ loaded = NoTerse
    /\ src = "mem"
    /\ significant_bits = 0
    /\ out = <<>>
    /\ writer = NoTif
    /\ pushed = <<>>
    /\ file = <<>>
    /\ reader = NoTif

\* One more move of the pointer; blocks keeps the shifts applied so far.
Moved(to, shift) ==
    /\ pc = "ptr"
    /\ Len(blocks) < MaxLen
    /\ bitp' = to
    /\ blocks' = Append(blocks, shift)
    /\ UNCHANGED <<pc, inp, build, terse_data, prevbits, from, oob, terse,
                   stream, loaded, src, significant_bits, out>>
    /\ UNCHANGED tifvars

\* ++p
PointerInc == Moved(Inc(bitp), 1)

\* --p
PointerDec == Moved(Decr(bitp), -1)

\* p += k
PointerAddAssign == \E k \in Shifts : Moved(AddAssign(bitp, k), k)

\* p -= k
PointerSubAssign == \E k \in Shifts : Moved(SubAssign(bitp, k), -k)

\* (p + k) + m, p + (k + m) and (p + k) - p
PointerPlus ==
    /\ pc = "ptr"
    /\ blocks = <<>>
    /\ \E k \in Offsets, m \in Offsets :
           out' = [k |-> k, m |-> m,
                   left |-> Plus(Plus(bitp, k), m),
                   right |-> Plus(bitp, k + m),
                   diff |-> Diff(Plus(bitp, k), bitp)]
    /\ pc' = "plus"
    /\ UNCHANGED <<inp, build, terse_data, bitp, prevbits, from, blocks, oob,
                   terse, stream, loaded, src, significant_bits>>
    /\ UNCHANGED tifvars

\* p < q, p <= q, p > q, p >= q and q - p for a second pointer q
PointerCompare ==
    /\ pc = "ptr"
    /\ blocks = <<>>
    /\ \E start \in Starts :
           LET q == BitPointer(0, start)
           IN  out' = [q |-> q, cmp |-> Comparisons(bitp, q),
                       diff |-> Diff(q, bitp)]
    /\ pc' = "compared"
    /\ UNCHANGED <<inp, build, terse_data, bitp, prevbits, from, blocks, oob,
                   terse, stream, loaded, src, significant_bits>>
    /\ UNCHANGED tifvars

\* One operation on the Bit *p, for a p inside the storage; out keeps the
\* operation and the word as it was.
BitOperation ==
    /\ pc = "ptr"
    /\ blocks = <<>>
    /\ bitp.off \in DOMAIN terse_data
    /\ \E op \in BitOps, b \in BOOLEAN :
           /\ terse_data' = BitApply(terse_data, bitp, op, b)
           /\ out' = [op |-> op, b |-> b, old |-> Rd(terse_data, bitp.off)]
    /\ pc' = "bitop"
    /\ UNCHANGED <<inp, build, bitp, prevbits, from, blocks, oob, terse,
                   stream, loaded, src, significant_bits>>
    /\ UNCHANGED tifvars

PointerNext ==
    \/ PointerInc
    \/ PointerDec
    \/ PointerAddAssign
    \/ PointerSubAssign
    \/ PointerPlus
    \/ PointerCompare
    \/ BitOperation

PointerSpec == PointerInit /\ [][PointerNext]_vars

\* ---------------------------------------------- Grey_tif_image on its own
\* operator[](i0, i1): the index into the span, d_dim[0] * i0 + i1.
Subscript(dim, i0, i1) == dim[1] * i0 + i1

\* A Grey_tif_image<uint8_t> of pixels 0 and 1 with its dimensions d_dim[0]
\* and d_dim[1].
ImageInit ==
    /\ pc = "image"
    /\ \E d \in {<<1, 1>>, <<2, 2>>, <<2, 3>>, <<3, 2>>} :
           pushed \in {<<[type |-> [size |-> 1, is_signed |-> FALSE,
                                    is_integral |-> TRUE],
                          dim |-> d, pix |-> px]>> :
                          px \in [1 .. (d[1] * d[2]) -> {{}, {0}}]}
    /\ writer = NoTif
    /\ file = <<>>
    /\ reader = NoTif
    /\ inp = [e |-> 8, sgn |-> FALSE, block |-> 1, v |-> <<>>]
    /\ build \in Builds(8, FALSE)
    /\ terse_data = Zeros(0)
    /\ bitp = [off |-> 0, bit |-> 0]
    /\ prevbits = 0
    /\ from = 0
    /\ blocks = <<>>
    /\ oob = FALSE
    /\ terse = NoTerse
    /\ stream = NoStream
    /\ loaded = NoTerse
    /\ src = "mem"
    /\ significant_bits = 0
    /\ out = <<>>

\* image[i0, i1] for i0 < d_dim[0] and i1 < d_dim[1]; an index beyond the
\* span is undefined.
ImageSubscript ==
    /\ pc = "image"
    /\ LET img == pushed[1]
       IN  \E i0 \in 0 .. (img.dim[1] - 1), i1 \in 0 .. (img.dim[2] - 1) :
               LET index == Subscript(img.dim, i0, i1)
               IN  IF index < Len(img.pix)
                   THEN /\ out' = [i0 |-> i0, i1 |-> i1,
                                   pixel |-> img.pix[index + 1]]
                        /\ pc' = "indexed"
                   ELSE /\ out' = [i0 |-> i0, i1 |-> i1]
                        /\ pc' = "undefined"
    /\ UNCHANGED <<writer, pushed, file, reader>>
    /\ UNCHANGED <<inp, build, terse_data, bitp, prevbits, from, blocks, oob,
                   terse, stream, loaded, src, significant_bits>>

ImageSpec == ImageInit /\ [][ImageSubscript]_vars

\* ------------------------------------------- Grey_tif<T>: load, push_back
\* POD_type_traits of std::byte, of the raw Grey_tif<std::byte>.
ByteType == [size |-> 1, is_signed |-> FALSE, is_integral |-> FALSE]
\* The pixel types T of the Grey_tif<T>: std::byte, int32_t, float.
StackTypes ==
    {ByteType, [size |-> 4, is_signed |-> TRUE, is_integral |-> TRUE],
     [size |-> 4, is_signed |-> TRUE, is_integral |-> FALSE]}
\* Frames of uint8_t (1, 3), int32_t (1, 0x05040302) and float (3.0f and
\* the float of bits 0x05040302): one pixel, or two pixels that differ.
TypedFrames ==
    UNION {{[type |-> t.type, dim |-> <<1, 1>>, pix |-> <<t.a>>],
            [type |-> t.type, dim |-> <<1, 1>>, pix |-> <<t.b>>],
            [type |-> t.type, dim |-> <<2, 1>>, pix |-> <<t.a, t.b>>]} :
           t \in {[type |-> [size |-> 1, is_signed |-> FALSE,
                             is_integral |-> TRUE],
                   a |-> {0}, b |-> {0, 1}],
                  [type |-> [size |-> 4, is_signed |-> TRUE,
                             is_integral |-> TRUE],
                   a |-> {0}, b |-> CHOOSE v \in PixelValues(4) : v # {0}],
                  [type |-> [size |-> 4, is_signed |-> TRUE,
                             is_integral |-> FALSE],
                   a |-> {22, 30}, b |-> CHOOSE v \in PixelValues(4) : v # {0}]}}
\* f_scan_images() of a Grey_tif<T> ends with f_regularize() unless T is
\* std::byte; o is the object after the loop over the directories.
Regularized(o, type) == IF type = ByteType THEN o ELSE f_regularize(o, type)

\* A file of one frame, written by a Grey_tif on a host of either order,
\* and the pixel type T of the Grey_tif<T> that is to load it.
TypedInit ==
    /\ pc = "tifwritten"
    /\ inp \in [type : StackTypes]
    /\ \E h \in Hosts, frame \in TypedFrames :
           /\ writer = push_back(DefaultTif(h), frame)
           /\ pushed = <<frame>>
    /\ ~writer.undefined
    /\ file = writer.d_tif
    /\ reader = NoTif
    /\ build \in Builds(8, FALSE)
    /\ terse_data = Zeros(0)
    /\ bitp = [off |-> 0, bit |-> 0]
    /\ prevbits = 0
    /\ from = 0
    /\ blocks = <<>>
    /\ oob = FALSE
    /\ terse = NoTerse
    /\ stream = NoStream
    /\ loaded = NoTerse
    /\ src = "mem"
    /\ significant_bits = 0
    /\ out = <<>>

\* Grey_tif<T> reader(is) on a host of either order
TypedLoad ==
    /\ pc = "tifwritten"
    /\ \E h \in Hosts :
           reader' = Regularized(GreyTifFromStream(file, h), inp.type)
    /\ pc' = "tifloaded"
    /\ UNCHANGED <<writer, pushed, file>>
    /\ UNCHANGED codecvars

\* reader.push_back(frame), the frame of pixel type T unless T is std::byte
TypedPushBack ==
    /\ pc = "tifloaded"
    /\ ~reader.undefined /\ ~reader.fail
    /\ Len(pushed) < MaxFrames
    /\ \E frame \in TypedFrames :
           /\ inp.type = ByteType \/ frame.type = inp.type
           /\ reader' = Regularized(push_back(reader, frame), inp.type)
           /\ pushed' = Append(pushed, frame)
    /\ UNCHANGED <<pc, writer, file>>
    /\ UNCHANGED codecvars

TypedNext == TypedLoad \/ TypedPushBack

TypedSpec == TypedInit /\ [][TypedNext]_vars

\* ------------------------------------ Terse records in one input stream
\* The stream is the bytes of the file, the number of bytes consumed and
\* the state of the stream: good is false once eofbit or failbit is set.
\* The characters with the codes 32 .. 126, in order; the descriptor has no
\* grave accent (code 96), which is left out.
Printable == <<
    " ", "!", "\"", "#", "$", "%", "&", "'", "(", ")", "*", "+",
    ",", "-", ".", "/", "0", "1", "2", "3", "4", "5", "6", "7",
    "8", "9", ":", ";", "<", "=", ">", "?", "@", "A", "B", "C",
    "D", "E", "F", "G", "H", "I", "J", "K", "L", "M", "N", "O",
    "P", "Q", "R", "S", "T", "U", "V", "W", "X", "Y", "Z", "[",
    "\\", "]", "^", "_", "", "a", "b", "c", "d", "e", "f", "g",
    "h", "i", "j", "k", "l", "m", "n", "o", "p", "q", "r", "s",
    "t", "u", "v", "w", "x", "y", "z", "{", "|", "}", "~">>
CodeOf(c) == 31 + (CHOOSE i \in DOMAIN Printable : Printable[i] = c)
CharOf(b) == IF b - 31 \in DOMAIN Printable THEN Printable[b - 31] ELSE ""
CodesOf(str) == [i \in DOMAIN str |-> CodeOf(str[i])]
CharsOf(codes) == [i \in DOMAIN codes |-> CharOf(codes[i])]
\* The value istream::get() returns at the end of the file, as a char.
EofChar == 255
\* operator<< appends the descriptor and the payload to the stream.
Written(bytes, t) ==
    bytes \o CodesOf(StreamOf(t).text) \o StreamOf(t).bytes
\* istr.ignore(all, c): the characters up to and including the first c.
Ignore(s, c) ==
    IF ~s.good THEN s
    ELSE LET hit == {k \in (s.pos + 1) .. Len(s.bytes) : s.bytes[k] = c}
         IN  IF hit = {} THEN [s EXCEPT !.pos = Len(s.bytes), !.good = FALSE]
             ELSE [s EXCEPT !.pos = Min(hit)]
\* f_next_is: read s.size() characters and seek back; the position moves
\* to the end of the file when the read comes short.
f_next_is(s, str) ==
    IF s.good /\ s.pos + Len(str) <= Len(s.bytes)
    THEN [s |-> s,
          is |-> SubSeq(s.bytes, s.pos + 1, s.pos + Len(str)) = CodesOf(str)]
    ELSE [s |-> IF s.good
                THEN [s EXCEPT !.pos = Len(s.bytes), !.good = FALSE]
                ELSE s,
          is |-> FALSE]
\* f_read_upto: get() until c has been read or the stream is no longer
\* good; the character of a failed get() is part of the result.
f_read_upto(s, c) ==
    IF ~s.good THEN [s |-> s, r |-> <<EofChar>>]
    ELSE LET hit == {k \in (s.pos + 1) .. Len(s.bytes) : s.bytes[k] = c}
         IN  IF hit = {}
             THEN [s |-> [s EXCEPT !.pos = Len(s.bytes), !.good = FALSE],
                   r |-> SubSeq(s.bytes, s.pos + 1, Len(s.bytes))
                         \o <<EofChar>>]
             ELSE [s |-> [s EXCEPT !.pos = Min(hit)],
                   r |-> SubSeq(s.bytes, s.pos + 1, Min(hit))]
\* f_find_tag: the inner loops that skip a CDATA section or a comment,
\* up to the closing string that starts with c.
RECURSIVE SkipSection(_, _, _)
SkipSection(s, c, close) ==
    LET u == f_read_upto(s, c).s
    IN  IF ~u.good THEN [s |-> u, found |-> TRUE]
        ELSE LET n == f_next_is(u, close)
             IN  IF n.is \/ ~n.s.good THEN [s |-> n.s, found |-> n.is]
                 ELSE SkipSection(n.s, c, close)
\* f_find_tag for the tag Terse; found is d_tag_found when it returns.
RECURSIVE FindTagFrom(_, _)
FindTagFrom(s, found) ==
    LET i == Ignore(s, CodeOf("<"))
    IN  IF ~i.good THEN [s |-> i, found |-> found]
        ELSE LET t == f_next_is(i, SubSeq(TagOpen, 2, 6))
             IN  IF ~t.s.good THEN [s |-> t.s, found |-> FALSE]
                 ELSE IF t.is THEN [s |-> t.s, found |-> TRUE]
                 ELSE IF f_next_is(t.s, <<"!", "[", "C", "D", "A", "T", "A",
                                          "[">>).is
                 THEN LET k == SkipSection(t.s, CodeOf("]"), <<"]", ">">>)
                      IN  FindTagFrom(k.s, k.found)
                 ELSE LET m == f_next_is(t.s, <<"!", "-", "-">>)
                      IN  IF ~m.s.good THEN [s |-> m.s, found |-> FALSE]
                          ELSE IF m.is
                          THEN LET k == SkipSection(m.s, CodeOf("-"),
                                                    <<"-", ">">>)
                               IN  FindTagFrom(k.s, k.found)
                          ELSE FindTagFrom(m.s, FALSE)
f_find_tag(s) == FindTagFrom(s, FALSE)
\* istream.read((char*)&buffer[0], buffer.size())
ReadPayloadKeepingPosition(s, n) ==
    s
ReadPayload(s, n) ==
    IF ~s.good THEN s
    ELSE IF s.pos + n <= Len(s.bytes) THEN [s EXCEPT !.pos = s.pos + n]
    ELSE [s EXCEPT !.pos = Len(s.bytes), !.good = FALSE]
\* f_prev_is(istr, "/>"): the two characters before the position.
f_prev_is(s, str) ==
    s.pos >= Len(str)
    /\ SubSeq(s.bytes, s.pos - Len(str) + 1, s.pos) = CodesOf(str)
\* Terse(std::ifstream&): XML_element(istream, "Terse"), then the private
\* constructor.  what is "terse" when an object was made, "none" when no
\* tag was found (the attributes are empty and std::stoul has nothing to
\* convert), "open" when the tag does not end in "/>" (f_read_element
\* then looks for the end tag).
TerseFromStream(s) ==
    LET t == f_find_tag(s)
        e == f_read_upto(t.s, CodeOf(">"))
        text == <<"<">> \o CharsOf(e.r)
        memory_size == Stoul(attribute(f_get_attributes(text),
                                       NameMemorySize))
        p == ReadPayload(e.s, memory_size)
    IN  IF ~t.found THEN [what |-> "none", s |-> t.s, terse |-> NoTerse]
        ELSE IF e.s.good /\ ~f_prev_is(e.s, TagClose)
        THEN [what |-> "open", s |-> e.s, terse |-> NoTerse]
        ELSE [what |-> "terse", s |-> p,
              terse |-> TerseOf([text |-> text,
                                 bytes |-> SubSeq(e.s.bytes, e.s.pos + 1,
                                                  p.pos)])]

\* Terse(v.begin(), v.size(), v.size()) for unsigned elements of e bits:
\* _compress with all the values in one block.
TerseOfBlock(v, e) ==
    LET s == highest_set_bit(SetBits(v, e, FALSE), e, FALSE,
                             [shl |-> "mask", abs |-> "wrap", sub |-> "wrap"])
        h == EmitHeader(Zeros(Capacity(Len(v), e, Len(v))), BitPointer(0, 0),
                        InitialPrevbits, s)
        r == append_range(h.mem, h.bitp, s, v)
    IN  [prolix_bits |-> e, signed |-> FALSE, block |-> Len(v),
         size |-> Len(v), data |-> Resize(r.mem, UsedWords(Pos(r.bitp)))]
\* The value whose bytes 1 .. 6 are the characters "<Terse": written at
\* bit 12, after the header of its block, they are bytes 2 .. 7 of the
\* payload.
TagValue ==
    UNION {Shl(Bits(CodeOf(TagOpen[i]), 8), 8 * i - 4) : i \in 1 .. 6}
\* The objects written: a payload that holds "<Terse", payloads that hold
\* the character '<', payloads without it, one or two words long.
RecordInputs ==
    {[v |-> <<TagValue>>, e |-> 64],
     [v |-> <<Bits(960, 16)>>, e |-> 16],
     [v |-> <<Bits(5, 8)>>, e |-> 8],
     [v |-> <<Bits(1, 8), Bits(2, 8)>>, e |-> 8],
     [v |-> <<Ones(64), Bits(60, 8)>>, e |-> 64]}
RecordInit ==
    /\ pc = "recording"
    /\ stream = [bytes |-> <<>>, pos |-> 0, good |-> TRUE]
    /\ inp \in [e : {64}, sgn : {FALSE}, block : {1}, v : {<<>>}]
    /\ build \in [shl : {"mask"}, abs : {"wrap"}, sub : {"wrap"}]
    /\ terse_data = Zeros(0)
    /\ bitp = [off |-> 0, bit |-> 0]
    /\ prevbits = 0
    /\ from = 0
    /\ blocks = <<>>
    /\ oob = FALSE
    /\ terse = NoTerse
    /\ loaded = NoTerse
    /\ src = "file"
    /\ significant_bits = 0
    /\ out = <<>>
    /\ writer = NoTif
    /\ pushed = NoTif
    /\ file = <<>>
    /\ reader = NoTif
\* ofstream << Terse(...): one more record at the end of the file.  blocks
\* keeps the objects written, in order.
RecordWrite ==
    /\ pc = "recording"
    /\ Len(blocks) < MaxLen
    /\ \E i \in RecordInputs :
          /\ terse' = TerseOfBlock(i.v, i.e)
          /\ stream' = [stream EXCEPT !.bytes = Written(stream.bytes, terse')]
          /\ blocks' = Append(blocks, terse')
    /\ UNCHANGED <<pc, inp, build, terse_data, bitp, prevbits, from, oob,
                   loaded, src, significant_bits, out>>
    /\ UNCHANGED tifvars
\* The file is closed and opened for reading.
RecordOpen ==
    /\ pc = "recording"
    /\ blocks # <<>>
    /\ pc' = "reading"
    /\ UNCHANGED codecvars
    /\ UNCHANGED tifvars
\* Terse(ifstream): out keeps the objects read, in order.
RecordRead ==
    /\ pc = "reading"
    /\ LET t == TerseFromStream(stream)
       IN  /\ stream' = t.s
           /\ IF t.what = "terse"
              THEN /\ loaded' = t.terse
                   /\ out' = Append(out, t.terse)
                   /\ pc' = "reading"
              ELSE /\ pc' = "undefined"
                   /\ UNCHANGED <<loaded, out>>
    /\ UNCHANGED <<inp, build, terse_data, bitp, prevbits, from, blocks, oob,
                   terse, src, significant_bits>>
    /\ UNCHANGED tifvars
RecordNext == RecordWrite \/ RecordOpen \/ RecordRead
RecordSpec == RecordInit /\ [][RecordNext]_vars

\* ------------------------------------------ XML_element::attribute alone
\* An element is parsed from a string and asked for an attribute.
Attribute(name, value) == name \o <<"=">> \o Quote \o value \o Quote
\* The elements: the descriptor operator<< writes, elements with one or two
\* of its attributes in either order, an element with a one-letter
\* attribute, and an element without attributes.
ElementTexts ==
    {StreamOf(TerseOfBlock(<<Bits(5, 8)>>, 8)).text,
     TagOpen \o Attribute(NameMemorySize, Dec(8)) \o TagClose,
     TagOpen \o Attribute(NameBlock, Dec(12)) \o TagClose,
     TagOpen \o Attribute(<<"a">>, Dec(1)) \o TagClose,
     SubSeq(TagOpen, 1, 6) \o TagClose}
        \cup {TagOpen \o Attribute(n[1], Dec(8)) \o <<" ">>
                  \o Attribute(n[2], Dec(3)) \o TagClose :
                 n \in {<<NameMemorySize, SubSeq(NameMemorySize, 8, 11)>>,
                        <<SubSeq(NameMemorySize, 8, 11), NameMemorySize>>,
                        <<NameProlixBits, SubSeq(NameProlixBits, 8, 11)>>,
                        <<NameBlock, NameSigned>>}}
\* The names asked for: names of the descriptor, suffixes of them, and
\* names no element has.
AttributeNames ==
    {NameMemorySize, NameProlixBits, NameBlock, NameSigned,
     NameNumberOfValues, <<"a">>, <<"x">>}
        \cup {SubSeq(n, k, Len(n)) : n \in {NameMemorySize, NameProlixBits},
                                     k \in {2, 8, 11}}
\* XML_element(std::string const&, tag): the text is in stream, the name
\* to ask for in inp.
ElementInit ==
    /\ pc = "element"
    /\ stream \in [text : ElementTexts, bytes : {<<>>}]
    /\ inp \in [name : AttributeNames]
    /\ build \in [shl : {"mask"}, abs : {"wrap"}, sub : {"wrap"}]
    /\ terse_data = Zeros(0)
    /\ bitp = [off |-> 0, bit |-> 0]
    /\ prevbits = 0
    /\ from = 0
    /\ blocks = <<>>
    /\ oob = FALSE
    /\ terse = NoTerse
    /\ loaded = NoTerse
    /\ src = "file"
    /\ significant_bits = 0
    /\ out = <<>>
    /\ writer = NoTif
    /\ pushed = NoTif
    /\ file = <<>>
    /\ reader = NoTif
\* xmle.attribute(name)
ElementAttribute ==
    /\ pc = "element"
    /\ LET r == AttributeFrom(f_get_attributes(stream.text), inp.name, 0)
       IN  IF r.undefined
           THEN pc' = "undefined" /\ UNCHANGED out
           ELSE pc' = "asked" /\ out' = r.value
    /\ UNCHANGED <<inp, build, terse_data, bitp, prevbits, from, blocks, oob,
                   terse, stream, loaded, src, significant_bits>>
    /\ UNCHANGED tifvars
ElementSpec == ElementInit /\ [][ElementAttribute]_vars

\* ------------------------------------------- Grey_tif: unsupported files
\* A TIFF file of one frame as another program may write it: the file a
\* little-endian writer made, with one field of its directory changed to a
\* feature Grey_tif does not support.  The directory of a one-frame file
\* starts 2 + 7 * 12 bytes before its next-directory field; entry k is at
\* ifd + 2 + 12 k: tag (2 bytes), type (2), count (4), value (4).
Unsupported == {"compression", "photometric", "samples", "bits", "strips"}
ForeignTif(w, kind) ==
    LET ifd == w.d_last_ifd_offset - 86
        buf == w.d_tif
    IN  IF kind = "compression"            \* Compression = 5 (LZW)
        THEN Poke(buf, ifd + 2 + 36 + 8, 4, Bits(5, 8), "little")
        ELSE IF kind = "photometric"       \* PhotometricInterpretation = 2
        THEN Poke(buf, ifd + 2 + 48 + 8, 4, Bits(2, 8), "little")
        ELSE IF kind = "samples"           \* SamplesPerPixel = 3
        THEN Poke(Poke(buf, ifd + 2 + 72, 2, Bits(277, 16), "little"),
                  ifd + 2 + 72 + 8, 4, Bits(3, 8), "little")
        ELSE IF kind = "bits"              \* BitsPerSample = 12
        THEN Poke(buf, ifd + 2 + 24 + 8, 4, Bits(12, 8), "little")
        ELSE \* StripOffsets of two strips, listed at the end of the file
             LET at == Len(buf)
                 first == Peek(buf, ifd + 2 + 60 + 8, 4, "little")
                 ext == buf \o [i \in 1 .. 8 |-> 0]
             IN  Poke(Poke(Poke(Poke(ext, at, 4, first, "little"),
                                at + 4, 4, first, "little"),
                           ifd + 2 + 60 + 4, 4, Bits(2, 8), "little"),
                      ifd + 2 + 60 + 8, 4, Bits(at, 16), "little")

\* The unsupported file is on disk.
ForeignInit ==
    /\ pc = "tifwritten"
    /\ \E frame \in TifFrames, kind \in Unsupported :
           /\ writer = push_back(DefaultTif("little"), frame)
           /\ pushed = <<frame>>
           /\ file = ForeignTif(writer, kind)
    /\ reader = NoTif
    /\ inp = [e |-> 8, sgn |-> FALSE, block |-> 1, v |-> <<>>]
    /\ build \in Builds(8, FALSE)
    /\ terse_data = Zeros(0)
    /\ bitp = [off |-> 0, bit |-> 0]
    /\ prevbits = 0
    /\ from = 0
    /\ blocks = <<>>
    /\ oob = FALSE
    /\ terse = NoTerse
    /\ stream = NoStream
    /\ loaded = NoTerse
    /\ src = "mem"
    /\ significant_bits = 0
    /\ out = <<>>

ForeignSpec == ForeignInit /\ [][TifLoad]_vars

\* ================================================================== claims
\* The storage the headers and payloads are looked up in: the vector
\* _compress fills, and d_terse_data once the constructor has returned.
Emitted == IF terse = NoTerse THEN terse_data ELSE terse.data
\* Number of bits _compress has emitted.
EmittedBits == IF blocks = <<>> THEN 0 ELSE blocks[Len(blocks)].end
\* No action of the codec reads or writes a word beyond the vector.
NoAccessBeyondStorage == ~oob
\* The full header of width s as the format describes it: a 0 bit, then
\* the fields, least significant bit first.
FullHeader(s) ==
    IF s < 7 THEN Shl(Bits(s, 3), 1)
    ELSE IF s < 10 THEN {1, 2, 3} \cup Shl(Bits(s - 7, 2), 4)
    ELSE {1, 2, 3, 4, 5} \cup Shl(Bits(s - 10, 6), 6)
FullHeaderLen(s) == IF s < 7 THEN 4 ELSE IF s < 10 THEN 6 ELSE 12
HeaderLen(b) == b.pay - b.hdr
HasFullHeader(b) ==
    /\ HeaderLen(b) = FullHeaderLen(b.s)
    /\ Field(Emitted, b.hdr, HeaderLen(b)) = FullHeader(b.s)
HasRepeatHeader(b) == HeaderLen(b) = 1 /\ MemBit(Emitted, b.hdr)
\* The values of block b of the input.
BlockValues(b) == SubSeq(inp.v, b.from + 1, b.to)

\* C1: an unsigned sequence of 8-, 16- or 32-bit values, the top bit set
\* or not, compressed with any block size and expanded by prolix, comes
\* back unchanged.
C1_UnsignedRoundTrip ==
    (pc = "done" /\ src = "mem" /\ ~inp.sgn) => out = inp.v

\* C2: a signed sequence of 8-, 16- or 32-bit values, the minimum value
\* included, is compressed and expanded by prolix to the same values.
C2_SignedRoundTrip ==
    /\ inp.sgn => pc # "aborted"
    /\ (pc = "done" /\ src = "mem" /\ inp.sgn) => out = inp.v

\* C3: an object written by operator<< and read back by the stream
\* constructor has the same prolix_bits, signedness, block size, number of
\* values and payload words, so that its prolix returns the sequence that
\* was compressed.
C3_StreamRoundTrip ==
    /\ pc = "loaded" => loaded = terse
    /\ (pc = "done" /\ src = "file") => out = inp.v

\* C5: the full header of a block of width s in 0 .. 73 is exactly 4 bits
\* (s < 7), 6 bits (s < 10) or 12 bits, a 0 bit followed by the fields
\* least significant bit first; nothing else is written, and prolix reads
\* the same width back and stops at the bit after the header.
C5_FullHeaderFormat ==
    \A i \in DOMAIN blocks :
        LET b == blocks[i]
        IN  (pc \in {"emitted", "parsed"} /\ b.prev # b.s /\ b.s <= 73) =>
                /\ HasFullHeader(b)
                /\ \A p \in 0 .. (2 * WordBits - 1) :
                       MemBit(terse_data, p) => p \in b.hdr .. (b.pay - 1)
                /\ pc = "parsed" =>
                       significant_bits = b.s /\ Pos(bitp) = b.pay
C5_Witness ==
    /\ pc = "parsed"
    /\ blocks[1].s = 73
    /\ blocks[1].prev = 0
    /\ blocks[1].hdr = WordBits - 4

\* C6: a block after the first whose width equals the width of the block
\* before it has a header of exactly one bit, and that bit is 1.
C6_RepeatHeader ==
    \A i \in DOMAIN blocks :
        (i > 1 /\ blocks[i].s = blocks[i - 1].s) => HasRepeatHeader(blocks[i])
C6_Witness ==
    /\ pc = "encoded"
    /\ Len(blocks) = 3
    /\ blocks[2].s # blocks[1].s
    /\ blocks[3].s = blocks[2].s
    /\ blocks[3].s = 8
    /\ inp.block = 1

MinWidth(x, e, sgn) ==
    IF x = {} THEN 0
    ELSE IF ~sgn THEN BitLen(x)
    ELSE IF (e - 1) \in x THEN 1 + BitLen(Ones(e) \ x)
    ELSE 1 + BitLen(x)
\* C8: the width s of a block is the smallest width that represents every
\* value of the block; it is 0 exactly when all values are 0.
C8_MinimalWidth ==
    \A i \in DOMAIN blocks :
        LET b == blocks[i]
            vals == BlockValues(b)
        IN  /\ \A k \in DOMAIN vals : MinWidth(vals[k], inp.e, inp.sgn) <= b.s
            /\ b.s # 0 =>
                   \E k \in DOMAIN vals :
                       MinWidth(vals[k], inp.e, inp.sgn) = b.s
            /\ b.s = 0 <=> \A k \in DOMAIN vals : vals[k] = {}

\* C9: the header of a block is followed by exactly (number of values of
\* the block) * s payload bits, the i-th value in bits [i*s, (i+1)*s) with
\* its low s bits; a block of width 0 has no payload.
C9_PayloadLayout ==
    \A i \in DOMAIN blocks :
        LET b == blocks[i]
            vals == BlockValues(b)
        IN  /\ b.end - b.pay = Len(vals) * b.s
            /\ \A k \in DOMAIN vals :
                   Field(Emitted, b.pay + (k - 1) * b.s, b.s)
                       = Trunc(IF inp.sgn THEN SExt(vals[k], inp.e, WordBits)
                               ELSE vals[k], b.s)

\* The memory_size attribute of the descriptor operator<< wrote.
WrittenMemorySize ==
    Stoul(attribute(f_get_attributes(stream.text), NameMemorySize))
\* terse_size()
TerseSize == Cardinality(DOMAIN terse.data) * (WordBits \div 8)
C4_TifRoundTrip ==
    /\ ~writer.undefined
    /\ pc = "tifloaded" =>
           /\ ~reader.undefined
           /\ ~reader.fail
           /\ FramesOf(reader) = pushed
\* Frames pushed on a little-endian host come back on a host of either
\* order.
TifLittleWriterRoundTrip ==
    writer.host = "little" => C4_TifRoundTrip
TifLittleWriterWitness ==
    /\ pc = "tifloaded"
    /\ writer.host = "little"
    /\ reader.host = "big"
    /\ Len(pushed) = 2
    /\ pushed[1].type.size = 2
    /\ pushed[2].type.size = 4

\* C11: prolix writes the output positions 0 .. N-1 and no other, also when
\* N is not a multiple of the block size: after each block the positions
\* below min(from, N) are written, at the end exactly N; it reads no word
\* beyond d_terse_data and stops at the bit after the last value, so that no
\* bit after it is taken for a value.
C11_ProlixWritesExactlyN ==
    /\ pc \in {"prolix", "done"} =>
           /\ Len(out) = (IF from < Object.size THEN from ELSE Object.size)
           /\ bitp.off \in DOMAIN Object.data
    /\ pc = "done" =>
           /\ Len(out) = Len(inp.v)
           /\ Pos(bitp) = EmittedBits

\* The file holds fewer payload bytes than its memory_size says.
PayloadCutShort == stream # NoStream /\ Len(stream.bytes) < WrittenMemorySize
\* C12: a file whose payload is cut short, or whose block header carries a
\* width above 64, ends in an error: no object is loaded from the former,
\* and decoding the latter neither runs into undefined behaviour nor
\* delivers values.
C12_CorruptInputIsAnError ==
    /\ PayloadCutShort => pc \notin {"loaded", "prolix", "done"}
    /\ (stream # NoStream /\ FirstWidth(stream) > WordBits) =>
           pc \notin {"undefined", "done"}

\* C13: a TIFF file whose directory declares a compression other than 1, a
\* photometric interpretation above 1, more than one sample per pixel, an
\* unsupported number of bits per sample or more than one strip is
\* rejected: after the load the stack is empty and the stream has failed.
C13_UnsupportedTifRejected ==
    (pc = "tifloaded" /\ file # writer.d_tif /\ ~reader.undefined) =>
        /\ Len(reader.d_img) = 0
        /\ reader.fail

\* prolix was called with a target the preconditions exclude: an integral
\* type narrower than bits_per_val(), or an unsigned one for signed data.
BadTarget ==
    /\ pc \in {"prolix", "done", "aborted"}
    /\ terse # NoTerse
    /\ inp.integral
    /\ inp.e < terse.prolix_bits \/ (terse.signed /\ ~inp.sgn)
\* C14: prolix with an integral target narrower than bits_per_val(), or
\* with an unsigned integral target for signed data, is detected at the call
\* and aborted before any value is written to the output.
C14_BadTargetAborts == BadTarget => (pc = "aborted" /\ out = <<>>)
C14_Witness == BadTarget /\ pc = "aborted" /\ Len(inp.v) > 0

\* C15: unsigned data are unpacked into a signed integral target of at
\* least bits_per_val() bits, and into float and double: the call is
\* accepted and every value decoded is the original value (the bit pattern
\* of all ones of the full width reads as -1 in a signed target of that
\* width).
C15_UnsignedIntoSigned ==
    (/\ pc \in {"prolix", "done", "aborted"}
     /\ terse # NoTerse /\ ~terse.signed
     /\ inp.sgn /\ inp.e >= terse.prolix_bits) =>
        /\ pc # "aborted"
        /\ pc = "done" => out = inp.v

\* C16: after n push_back calls on an empty Grey_tif<std::byte>, with
\* frames of different pixel types and dimensions, the stack holds n images
\* and image i has the pixel type, the dimensions and the pixels of the
\* i-th frame pushed.
C16_StackHoldsPushedFrames ==
    pc = "tif" =>
        /\ ~writer.undefined
        /\ Len(writer.d_img) = Len(pushed)
        /\ FramesOf(writer) = pushed

\* The offsets of the directories a TIFF reader finds in the bytes buf of
\* byte order h, following the chain from index for at most n directories;
\* a directory that does not lie within the file ends the chain with -1.
RECURSIVE IfdChain(_, _, _, _)
IfdChain(buf, h, index, n) ==
    IF index = 0 \/ n = 0 THEN <<>>
    ELSE IF ~Within(buf, index, 2 + 7 * 12 + 4) THEN <<0 - 1>>
    ELSE <<index>> \o IfdChain(buf, h,
                               ToNat(Peek(buf, index + 2 + 7 * 12, 4, h)),
                               n - 1)
\* The tags of a directory of push_back, in the order they are written.
FrameTags == <<256, 257, 258, 259, 262, 273, 339>>
\* C17: after any sequence of push_back calls the chain of directories from
\* the header's first offset has one directory per frame, in push order;
\* each starts at an even offset and holds seven entries with the tags
\* 0x0100, 0x0101, 0x0102, 0x0103, 0x0106, 0x0111, 0x0153 in this order;
\* its StripOffsets is the start of the frame's pixel bytes (behind the
\* header or the directory before it), where the frame's pixels are; the
\* chain ends with the last directory, whose next offset is 0.
C17_IfdChain ==
    pc = "tif" =>
        /\ ~writer.undefined
        /\ LET buf == writer.d_tif
               h == writer.host
               chain == IfdChain(buf, h, ToNat(Peek(buf, 4, 4, h)),
                                 MaxFrames + 1)
           IN  /\ Len(chain) = Len(pushed)
               /\ \A i \in 1 .. Len(chain) :
                      LET ifd == chain[i]
                          start == IF i = 1 THEN 8 ELSE chain[i - 1] + 90
                          size == pushed[i].type.size
                      IN  /\ ifd > 0
                          /\ ifd % 2 = 0
                          /\ Peek(buf, ifd, 2, h) = Bits(7, 8)
                          /\ \A k \in 1 .. 7 :
                                 Peek(buf, ifd + 2 + 12 * (k - 1), 2, h)
                                     = Bits(FrameTags[k], 16)
                          /\ Peek(buf, ifd + 2 + 60 + 8, 4, h) = Bits(start, 16)
                          /\ \A k \in 1 .. Len(pushed[i].pix) :
                                 Peek(buf, start + (k - 1) * size, size, h)
                                     = pushed[i].pix[k]
                          /\ (Peek(buf, ifd + 2 + 84, 4, h) = {}) <=>
                                 (i = Len(chain))

\* A value of a type of e bits reduced to its s low bits: v mod 2^s for an
\* unsigned type, the sign extension of the s low bits for a signed one.
Reduced(v, s, e, sgn) ==
    IF sgn THEN SExt(Trunc(v, s), s, e) ELSE Trunc(v, s)
\* C18: a value v of an integral type T assigned to a Bit_range of
\* s <= width(T) bits at any position, also across the end of a word, is
\* read back from the range as v mod 2^s (T unsigned) or as the sign
\* extension of its s low bits (T signed).
C18_AssignThenRead ==
    /\ (pc = "bit" /\ Fits) => ~BitTrap
    /\ pc = "read" => out = <<Reduced(inp.v[1], inp.s, inp.e, inp.sgn)>>

\* C19: N values of an integral type T appended with width s, 1 <= s <=
\* width(T), to zeroed storage and extracted from the same start into
\* elements of T come back masked to s bits (T unsigned) or sign-extended
\* from bit s - 1 (T signed); append_range and get_range both leave the
\* cursor at start + N * s.
C19_AppendThenGet ==
    /\ pc \in {"appended", "got"} =>
           Pos(bitp) = inp.start + Len(inp.v) * inp.s
    /\ pc = "got" =>
           out = [i \in 1 .. Len(inp.v) |->
                     Reduced(inp.v[i], inp.s, inp.e, inp.sgn)]
    /\ (pc = "aborted" \/ pc = "undefined") => ~Fits

\* The value of s bits clamped to a type of e < s bits.
Clamped(x, s, e, sgn) ==
    IF ~sgn THEN IF x \cap (e .. (s - 1)) = {} THEN x ELSE Ones(e)
    ELSE IF (s - 1) \in x
    THEN IF (e - 1) .. (s - 1) \subseteq x THEN Trunc(x, e) ELSE {e - 1}
    ELSE IF x \cap ((e - 1) .. (s - 1)) = {} THEN x ELSE Ones(e - 1)
\* C20: get_range with a width beyond the width of the output type stores
\* every value clamped to the range of the type, the minimum of the value
\* and the maximum for an unsigned type, the sign-extended value clamped to
\* [min, max] for a signed one, and completes without error.
C20_GetRangeClamps ==
    /\ pc \in {"undefined", "aborted"} => Fits
    /\ pc = "clamped" =>
           out = [i \in 1 .. Len(inp.v) |->
                     Clamped(Field(terse_data, inp.start + (i - 1) * inp.s,
                                   inp.s),
                             inp.s, inp.e, inp.sgn)]

\* The pointer at shift bits from pointer p, in exact arithmetic.
At64(p, shift) ==
    LET b == p.bit + (shift % WordBits)
    IN  [off |-> p.off + (shift \div WordBits) + (b \div WordBits),
         bit |-> b % WordBits]
\* The pointer after the shifts, in exact arithmetic.
RECURSIVE Travelled(_, _)
Travelled(p, shifts) ==
    IF shifts = <<>> THEN p
    ELSE Travelled(At64(p, Head(shifts)), Tail(shifts))
\* C21: after construction from any signed bit offset and any sequence of
\* ++, --, += k and -= k, the bit index of a Bit_pointer lies in [0, W) and
\* word index * W + bit index is the initial offset plus the sum of the
\* shifts applied.
C21_PointerInvariant ==
    pc = "ptr" =>
        /\ bitp.bit \in 0 .. (WordBits - 1)
        /\ bitp = Travelled(At64([off |-> 0, bit |-> 0], inp.start), blocks)

\* C22: for every Bit_pointer c and all integers k and m, positive, zero or
\* negative, (c + k) + m = c + (k + m) and (c + k) - c = k.
C22_PlusAssociates ==
    pc = "plus" => out.left = out.right /\ out.diff = out.k
\* A pointer moved back over the start of its word and forward over several
\* words.
C22_Witness ==
    /\ pc = "plus"
    /\ inp.start = 5 /\ out.k = -130 /\ out.m = 200
    /\ out.left = [off |-> 1, bit |-> 11]

\* C23: for a frame of dimensions [rows, cols] the two-dimensional
\* subscript (i, j) refers to the pixel at index i * cols + j of the span
\* of the frame, for every i < rows and j < cols, also when rows # cols.
C23_SubscriptRowMajor ==
    /\ pc # "undefined"
    /\ pc = "indexed" =>
           out.pixel = pushed[1].pix[out.i0 * pushed[1].dim[2] + out.i1 + 1]

\* C24: the comparison operators of two Bit_pointers p and q into the same
\* words are those of pointers: p < q iff q - p > 0, p <= q iff
\* q - p >= 0, p > q iff q - p < 0 and p >= q iff q - p <= 0, also when p
\* and q lie in different words.
C24_ComparisonsAsPointers ==
    pc = "compared" =>
        /\ out.cmp.lt <=> out.diff > 0
        /\ out.cmp.le <=> out.diff >= 0
        /\ out.cmp.gt <=> out.diff < 0
        /\ out.cmp.ge <=> out.diff <= 0

\* C25: a further push_back on a Grey_tif<T>, raw or typed, that was loaded
\* from a file of either byte order leaves the pixel values, the dimensions
\* and the number of the frames stored before unchanged: the scan it ends
\* with neither swaps nor converts the stored pixels a second time.
C25_PushBackKeepsFrames ==
    [][TypedPushBack =>
           /\ ~reader'.undefined
           /\ Len(FramesOf(reader')) = Len(FramesOf(reader)) + 1
           /\ \A i \in DOMAIN FramesOf(reader) :
                  FramesOf(reader')[i] = FramesOf(reader)[i]]_vars

\* The value a Bit operation is to leave in the bit that was old.
BitExpected(op, old, b) ==
    CASE op = "set" -> TRUE
      [] op = "reset" -> FALSE
      [] op = "flip" -> ~old
      [] op = "assign" -> b
      [] op = "xor" -> old # b
      [] op = "or" -> old \/ b
      [] op = "and" -> old /\ b
\* C29: each operation on a Bit (set, reset, flip, assignment of a bool,
\* ^= b, |= b, &= b) leaves the bit with the expected value (1, 0, not old,
\* b, old xor b, old or b, old and b) and every other bit of the word as
\* it was.
C29_BitOperations ==
    pc = "bitop" =>
        Rd(terse_data, bitp.off) =
            (out.old \ {bitp.bit}) \cup
            (IF BitExpected(out.op, bitp.bit \in out.old, out.b)
             THEN {bitp.bit} ELSE {})

\* The file operator<< makes of the objects ts, written back to back.
RECURSIVE Concatenated(_)
Concatenated(ts) ==
    IF ts = <<>> THEN <<>>
    ELSE Written(Concatenated(SubSeq(ts, 1, Len(ts) - 1)), ts[Len(ts)])
\* C26: from a stream of k records written back to back with operator<<,
\* every construction of a Terse returns the next record as it was written
\* and leaves the stream, still good, at the first byte of the record
\* after it: the descriptor and memory_size bytes of payload are consumed,
\* no more and no less, also when the payload holds '<' or "<Terse".  A
\* construction fails only when all k records have been read.
C26_RecordsInOrder ==
    /\ pc = "reading" =>
          /\ Len(out) <= Len(blocks)
          /\ out = SubSeq(blocks, 1, Len(out))
          /\ stream.good
          /\ stream.pos = Len(Concatenated(out))
          /\ stream.bytes = Concatenated(blocks)
    /\ (pc = "undefined" /\ blocks # <<>>) => out = blocks
\* Three records have been read back; the payload of the first holds the
\* text "<Terse", the payload of the second the character '<'.
C26_Witness ==
    /\ pc = "reading"
    /\ Len(out) = 3
    /\ out = blocks
    /\ out[1] # out[2]
    /\ SubSeq(StreamOf(out[1]).bytes, 3, 8) = CodesOf(SubSeq(TagOpen, 1, 6))
    /\ \E k \in DOMAIN StreamOf(out[2]).bytes :
          StreamOf(out[2]).bytes[k] = CodeOf("<")
    /\ stream.pos = Len(stream.bytes)

\* C27: whatever the values, the element type, the block size and the
\* word type T of the vector (a byte or the 64-bit default), the bits
\* _compress has emitted, headers and payloads together, fit in the
\* vector it allocated, ceil(n * (sizeof(element) + 12 / (8 * B)) /
\* sizeof(T)) words of T, and no word beyond the vector is touched.  The
\* position of bitp counts bits and does not depend on T.
C27_WithinCapacity ==
    /\ \A w \in {8, WordBits} :
          EmittedBits <= w * CeilDiv(Len(inp.v) * (inp.e * inp.block + 12),
                                     inp.block * w)
    /\ ~oob

\* The bits of the storage mem outside the inp.s bits that start at bitp.
Outside(mem) ==
    {<<i, k>> \in (DOMAIN mem) \X Ones(WordBits) :
        /\ k \in mem[i]
        /\ ~(Pos(bitp) <= i * WordBits + k
             /\ i * WordBits + k < Pos(bitp) + inp.s)}
\* The inp.s bits that start at bitp are zero.
Zeroed(mem) ==
    \A k \in Pos(bitp) .. (Pos(bitp) + inp.s - 1) :
        (k % WordBits) \notin Rd(mem, k \div WordBits)
\* C28: a value of an integral type T, signed or unsigned, assigned with
\* operator= to a Bit_range of N <= width(T) bits, or ORed with operator|=
\* into a range whose bits are zero, leaves every bit of the storage
\* outside the N bits of the range as it was, also for a negative value
\* with N = width(T).
C28_RangeFrame ==
    [][/\ BitAssign => Outside(terse_data') = Outside(terse_data)
       /\ (BitOrAssign /\ Zeroed(terse_data)) =>
              Outside(terse_data') = Outside(terse_data)]_vars

\* The attributes of a well-formed attribute string a, from index i on, as
\* pairs of a name and a value: names end at '=', values are quoted, pairs
\* are separated by one space.
RECURSIVE AttributePairs(_, _)
AttributePairs(a, i) ==
    IF i >= Len(a) THEN {}
    ELSE LET eq == Min({k \in i .. Len(a) : At(a, k) = "="})
             close == SkipQuoted(a, eq + 1, At(a, eq + 1))
         IN  {<<SubStr(a, i, eq - i), SubStr(a, eq + 2, close - (eq + 2))>>}
                 \cup AttributePairs(a, close + 2)
\* C30: attribute(name) returns the value of the attribute whose name is
\* exactly name, and the empty string when the element has no attribute of
\* exactly that name, also when name is a suffix of the name of an
\* attribute and when the element has no attributes; it always returns.
C30_AttributeByExactName ==
    /\ pc # "undefined"
    /\ pc = "asked" =>
          LET pairs == AttributePairs(f_get_attributes(stream.text), 0)
          IN  IF \E p \in pairs : p[1] = inp.name
              THEN \E p \in pairs : p[1] = inp.name /\ out = p[2]
              ELSE out = <<>>
====
